---- MODULE Spec2Model ----
(***************************************************************************)
(* Pipeline-parallel execution engine of                                   *)
(* onnxruntime/core/session/pipeline_parallelism/multi_gpu_pipeline.cc.    *)
(*                                                                         *)
(* One PipelineSession::Run is modelled: the orchestrator thread           *)
(* (ValidateRequest, SetupAndScheduleAllRequestsToStage0,                  *)
(* ProcessResponses, HandleAndReturnFailure, CopyFinalOutput), one worker  *)
(* thread per pipeline stage (ThreadWorkerFn / ExecuteRequest), the        *)
(* per-stage task queues and the response queue.  Indices (stage ids, dim  *)
(* indices, token ids) are 0-based as in the C++ code; TLA+ sequences are  *)
(* 1-based, so element i of a C++ vector v is v[i + 1] here.               *)
(***************************************************************************)
EXTENDS Integers, Sequences, FiniteSets, TLC

\* ------------------------------------------------------------------ bounds
\* largest number of pipeline stages of an ensemble (pcfg.num_stages)
NumStages == 2
\* largest number of requests in one batch
MaxReqs == 2
\* largest num_steps passed to Run; also the cap on a token's step_id
MaxNumSteps == 3
\* number of recurrent-state slots (past/present pairs) per stage
NumSlots == 1
\* sequence length of the caller's input_ids
OrigSeqLen == 5

\* --------------------------------------------------------------- names
\* A tensor name is a pair <<base, k>>; k numbers the state slots.
Name(s) == <<s, 0>>
PastName(k) == <<"past", k>>
PresentName(k) == <<"present", k>>

NoName == Name("")

\* -------------------------------------------------------------- helpers
\* Contains(vec, to_find): <<found, index>>, index 0-based, -1 when absent.
Contains(vec, to_find) ==
  IF \E i \in DOMAIN vec : vec[i] = to_find
    THEN <<TRUE, (CHOOSE i \in DOMAIN vec :
                     vec[i] = to_find /\ \A j \in DOMAIN vec : vec[j] = to_find => i <= j) - 1>>
    ELSE <<FALSE, -1>>

\* product of the dimensions of a shape (std::accumulate with multiplies)
RECURSIVE NumElements(_)
NumElements(shape) ==
  IF shape = <<>> THEN 1 ELSE Head(shape) * NumElements(Tail(shape))

\* shape with the 0-based dimension d replaced by v
SetDim(shape, d, v) == [shape EXCEPT ![d + 1] = v]

\* ------------------------------------------------------- configuration
\* Vocabulary slices a model run may produce for one lane's last time step, as
\* Ort::Float16_t raw bit patterns: 0 is 0.0, 15360 is 1.0, 32768 is -0.0 and
\* 48128 is -1.0.
LogitRows == { <<15360, 0>>, <<0, 15360>>, <<15360, 15360>>, <<48128, 32768>> }
\* slice written for the time steps before the last one
FillerRow == <<0, 15360>>
VocabSize == Len(FillerRow)

\* batch sizes of the caller's input tensors
BatchSizes == {1, 2}

\* the number of models in the "ensemble" array of the configuration the
\* session was constructed from; fixed for the life of the session
VARIABLE num_models

\* the model, if any (else -1), whose file declares one output more than the
\* ensemble configuration routes: "scores", which is neither a present-state
\* output nor a key of its inter_stage_output_input_map; fixed for the life
\* of the session
VARIABLE unrouted_model

StageIds == 0..(num_models - 1)
Slots == 1..NumSlots

PastNames == [k \in Slots |-> PastName(k)]
PresentNames == [k \in Slots |-> PresentName(k)]

\* One entry of pcfg.model_config_vec as ParseEnsembleFile and Init fill it for a
\* decoder split into num_models stages: stage 0 consumes input_ids and
\* position_ids, every later stage the hidden states of the stage before it, and
\* the last stage produces the logits.  in_seq_dim / in_batch_dim are the
\* configured dimension roles of stage 0's input_ids.
ModelConfig(s, in_seq_dim, in_batch_dim) ==
  [ device_id |-> s,
    input_names |-> (IF s = 0 THEN <<Name("input_ids"), Name("position_ids")>>
                              ELSE <<Name("input_hidden_states")>>) \o PastNames,
    output_names |-> (IF s = num_models - 1 THEN <<Name("logits")>>
                                            ELSE <<Name("hidden_states")>>)
                     \o (IF s = unrouted_model THEN <<Name("scores")>> ELSE <<>>)
                     \o PresentNames,
    input_to_use_for_seq_len |-> IF s = 0 THEN Name("input_ids") ELSE Name("input_hidden_states"),
    seq_len_dim_index_in_input |-> IF s = 0 THEN in_seq_dim ELSE 1,
    batch_dim_index_in_input |-> IF s = 0 THEN in_batch_dim ELSE 0,
    past_input_names |-> PastNames,
    present_output_names |-> PresentNames,
    seq_len_dim_index_in_state |-> 1,
    batch_dim_index_in_state |-> 0,
    inter_stage_output_input_map |->
      IF s = num_models - 1
        THEN [o \in {Name("logits")} |-> Name("logits")]
        ELSE [o \in {Name("hidden_states")} |-> Name("input_hidden_states")],
    seq_len_dim_in_inter_stage_output |-> 1,
    batch_dim_in_inter_stage_output |-> 0 ]

PipelineConfig(in_seq_dim, in_batch_dim) ==
  [ eos_token |-> 1,
    input_ids_name |-> Name("input_ids"),
    position_ids_name |-> Name("position_ids"),
    logits_name |-> Name("logits"),
    max_seq_len |-> OrigSeqLen + MaxNumSteps,
    model_config_vec |-> [i \in 1..num_models |-> ModelConfig(i - 1, in_seq_dim, in_batch_dim)],
    num_stages |-> num_models ]

\* the ensemble the session is constructed over: input_ids laid out [batch, seq]
pcfg == PipelineConfig(1, 0)

\* GetShape: the introspected shape of a model input or output, -1 for a
\* symbolic dimension
GetShape(mcfg, name) ==
  IF name = Name("logits") THEN <<-1, -1, VocabSize>> ELSE <<-1, -1>>

\* -------------------------------------------------------------- tensors
\* An OrtValue: the allocation it lives in, its shape, and its contents where
\* the engine reads them (logits, regenerated ids).
Tensor(buf, shape, data) == [buf |-> buf, shape |-> shape, data |-> data]
NullValue == Tensor(<<"null", 0>>, <<>>, <<>>)

\* Eigen::half_impl::half_to_float, up to a monotone rescaling of the result:
\* bit 15 is the sign, the remaining 15 bits order the magnitudes of the
\* finite halves; +0.0 and -0.0 compare equal.
HalfToFloat(h) == IF h >= 32768 THEN 0 - (h - 32768) ELSE h

\* error_msg / status message: what happened, for which request, about which name
Msg(kind, id, name) == [kind |-> kind, id |-> id, name |-> name]
NoMsg == Msg("", 0, NoName)

Range(f) == { f[x] : x \in DOMAIN f }
EmptyMap == [x \in {} |-> NullValue]

\* ---------------------------------------------------------------- Token
\* Token::Init
TokenInit(req_id, step_id, names, values) ==
  [ req_id |-> req_id, step_id |-> step_id,
    ort_value_names |-> names, ort_values |-> values, error_msg |-> NoMsg ]

\* a default-constructed Token
EmptyToken == TokenInit(0, 0, <<>>, <<>>)

\* Token::Clear
TokenClear(token) == EmptyToken

\* ------------------------------------------------- RequestExecutionFrame
\* variant: a buffer is preallocated for every output of every stage that is
\* not a present-state output
NewRunState_AllOutputs(idx, batch_size) ==
  LET mcfg == pcfg.model_config_vec[idx + 1]
      shape0 == GetShape(mcfg, mcfg.past_input_names[1])
      max_shape == SetDim(SetDim(shape0, mcfg.batch_dim_index_in_state, batch_size),
                          mcfg.seq_len_dim_index_in_state, pcfg.max_seq_len)
      size_to_allocate == 2 * NumElements(max_shape)
      empty_shape == SetDim(max_shape, mcfg.seq_len_dim_index_in_state, 0)
      buffer_1_vec == [k \in DOMAIN mcfg.past_input_names |-> [id |-> <<"buffer_1", k>>, size |-> size_to_allocate]]
      buffer_2_vec == [k \in DOMAIN mcfg.past_input_names |-> [id |-> <<"buffer_2", k>>, size |-> size_to_allocate]]
      InterSize(oname) ==
        2 * NumElements(SetDim(SetDim(GetShape(mcfg, oname), mcfg.batch_dim_in_inter_stage_output, batch_size),
                               mcfg.seq_len_dim_in_inter_stage_output, pcfg.max_seq_len))
  IN [ present_past_prealloc_buffer_1_vec |-> buffer_1_vec,
       present_past_prealloc_buffer_2_vec |-> buffer_2_vec,
       output_val_map |->
         [oname \in Range(mcfg.present_output_names) |->
            Tensor(buffer_1_vec[Contains(mcfg.present_output_names, oname)[2] + 1].id, empty_shape, <<>>)],
       inter_stage_output_prealloc_buffer_map |->
         [oname \in Range(mcfg.output_names) \ Range(mcfg.present_output_names) |->
            [id |-> <<"inter_stage", idx, Contains(mcfg.output_names, oname)[2]>>, size |-> InterSize(oname)]],
       io_binding |-> [inputs |-> EmptyMap, outputs |-> <<>>] ]

\* the RunState the constructor builds for stage idx
NewRunState(idx, batch_size) ==
  LET mcfg == pcfg.model_config_vec[idx + 1]
      shape0 == GetShape(mcfg, mcfg.past_input_names[1])
      max_shape == SetDim(SetDim(shape0, mcfg.batch_dim_index_in_state, batch_size),
                          mcfg.seq_len_dim_index_in_state, pcfg.max_seq_len)
      size_to_allocate == 2 * NumElements(max_shape)
      empty_shape == SetDim(max_shape, mcfg.seq_len_dim_index_in_state, 0)
      buffer_1_vec == [k \in DOMAIN mcfg.past_input_names |-> [id |-> <<"buffer_1", k>>, size |-> size_to_allocate]]
      buffer_2_vec == [k \in DOMAIN mcfg.past_input_names |-> [id |-> <<"buffer_2", k>>, size |-> size_to_allocate]]
      InterSize(oname) ==
        2 * NumElements(SetDim(SetDim(GetShape(mcfg, oname), mcfg.batch_dim_in_inter_stage_output, batch_size),
                               mcfg.seq_len_dim_in_inter_stage_output, pcfg.max_seq_len))
  IN [ present_past_prealloc_buffer_1_vec |-> buffer_1_vec,
       present_past_prealloc_buffer_2_vec |-> buffer_2_vec,
       output_val_map |->
         [oname \in Range(mcfg.present_output_names) |->
            Tensor(buffer_1_vec[Contains(mcfg.present_output_names, oname)[2] + 1].id, empty_shape, <<>>)],
       inter_stage_output_prealloc_buffer_map |->
         IF idx < pcfg.num_stages - 1
           THEN [oname \in DOMAIN mcfg.inter_stage_output_input_map |->
                   [id |-> <<"inter_stage", idx, Contains(mcfg.output_names, oname)[2]>>, size |-> InterSize(oname)]]
           ELSE [oname \in {} |-> [id |-> <<"inter_stage", idx, 0>>, size |-> 0]],
       io_binding |-> [inputs |-> EmptyMap, outputs |-> <<>>] ]

\* RequestExecutionFrame::RequestExecutionFrame
NewFrame(req_idx, req_id, batch_size, orig_input_seq_len, stage_id) ==
  [ req_index |-> req_idx,
    req_id |-> req_id,
    batch_size |-> batch_size,
    orig_input_seq_len |-> orig_input_seq_len,
    stage_id |-> stage_id,
    token |-> EmptyToken,
    model_run_state_vec |-> [i \in 1..pcfg.num_stages |-> NewRunState(i - 1, batch_size)],
    next_step_input_buffer_map |-> [n \in {} |-> [data |-> <<>>, shape |-> <<>>]] ]

\* -------------------------------------------------------- the model run
\* The flat, row-major contents of a [batch, seq, vocab] logits tensor whose
\* last time step holds rows[lane] for every lane.
LogitsData(batch, seq, rows) ==
  [i \in 1..(batch * seq * VocabSize) |->
     LET lane == (i - 1) \div (seq * VocabSize)
         t == ((i - 1) % (seq * VocabSize)) \div VocabSize
         j == (i - 1) % VocabSize
     IN IF t = seq - 1 THEN rows[lane + 1][j + 1] ELSE FillerRow[j + 1]]

\* What the session writes for an output bound to a device or to a caller's
\* tensor: the shape the model computes and, for the logits, their contents.
ModelOutput(oname, bound, batch, seq, rows) ==
  IF oname = Name("logits")
    THEN Tensor(bound.buf, <<batch, seq, VocabSize>>, LogitsData(batch, seq, rows))
    ELSE Tensor(bound.buf, <<batch, seq>>, <<>>)

\* Ort::Value::CreateTensor(mem_info, p_data, p_data_len, shape, shape_len,
\* type) over a preallocated buffer: the half-precision elements of the shape
\* must fit into the p_data_len bytes of the buffer, else it throws.
CreateTensor(mem_allocation, shape) ==
  [ ok |-> 2 * NumElements(shape) <= mem_allocation.size,
    value |-> Tensor(mem_allocation.id, shape, <<>>) ]

\* ------------------------------------------------------- ExecuteRequest
\* variant: the state outputs always go to buffer_1
StateOutputBuffer_Buffer1(run_state, step_id, k) ==
  run_state.present_past_prealloc_buffer_1_vec[k]

\* step_id % 2 == 0 ? buffer_2 : buffer_1
StateOutputBuffer(run_state, step_id, k) ==
  IF step_id % 2 = 0
    THEN run_state.present_past_prealloc_buffer_2_vec[k]
    ELSE run_state.present_past_prealloc_buffer_1_vec[k]

\* variant: a past-state input is bound to the initial empty state at every step
BindInputs_InitialState(mcfg, run_state, in_names, in_values) ==
  LET bound == { iname \in Range(mcfg.input_names) :
                   Contains(in_names, iname)[1] \/ Contains(mcfg.past_input_names, iname)[1] }
  IN [iname \in bound |->
        IF Contains(in_names, iname)[1]
          THEN in_values[Contains(in_names, iname)[2] + 1]
          ELSE [run_state.output_val_map[
                  mcfg.present_output_names[Contains(mcfg.past_input_names, iname)[2] + 1]]
                 EXCEPT !.shape = SetDim(@, mcfg.seq_len_dim_index_in_state, 0)]]

\* the input bindings made by the loop over mcfg.input_names
BindInputs(mcfg, run_state, in_names, in_values) ==
  LET bound == { iname \in Range(mcfg.input_names) :
                   Contains(in_names, iname)[1] \/ Contains(mcfg.past_input_names, iname)[1] }
  IN [iname \in bound |->
        IF Contains(in_names, iname)[1]
          THEN in_values[Contains(in_names, iname)[2] + 1]
          ELSE run_state.output_val_map[
                 mcfg.present_output_names[Contains(mcfg.past_input_names, iname)[2] + 1]]]

\* The binding the loop over mcfg.output_names makes for output oidx (0-based):
\* [ok |-> FALSE] when run_state.inter_stage_output_prealloc_buffer_map.at or
\* CreateTensor throws.
BindOutput(mcfg, run_state, ort_resp, step_id, batch_size, input_seq_len, new_seq_len, oidx) ==
  LET oname == mcfg.output_names[oidx + 1]
      rc == Contains(mcfg.present_output_names, oname)
      rq == Contains(ort_resp.output_names, oname)
      state_shape ==
        SetDim(SetDim(GetShape(mcfg, mcfg.present_output_names[1]),
                      mcfg.batch_dim_index_in_state, batch_size),
               mcfg.seq_len_dim_index_in_state, new_seq_len)
      inter_shape ==
        SetDim(SetDim(GetShape(mcfg, oname), mcfg.batch_dim_in_inter_stage_output, batch_size),
               mcfg.seq_len_dim_in_inter_stage_output, input_seq_len)
      output_ort_val == CreateTensor(StateOutputBuffer(run_state, step_id, rc[2] + 1), state_shape)
      inter_stage_ort_val ==
        CreateTensor(run_state.inter_stage_output_prealloc_buffer_map[oname], inter_shape)
  IN IF rc[1]
       THEN IF output_ort_val.ok
              THEN [ok |-> TRUE, name |-> oname, kind |-> "state", value |-> output_ort_val.value]
              ELSE [ok |-> FALSE, name |-> oname, kind |-> "not enough space", value |-> NullValue]
     ELSE IF rq[1]
       THEN IF ort_resp.output_meminfo[rq[2] + 1]
              THEN [ok |-> TRUE, name |-> oname, kind |-> "device",
                    value |-> Tensor(<<"device", rq[2]>>, <<>>, <<>>)]
              ELSE [ok |-> TRUE, name |-> oname, kind |-> "caller",
                    value |-> ort_resp.output_values[rq[2] + 1]]
     ELSE IF oname \in DOMAIN run_state.inter_stage_output_prealloc_buffer_map
       THEN IF inter_stage_ort_val.ok
              THEN [ok |-> TRUE, name |-> oname, kind |-> "inter_stage", value |-> inter_stage_ort_val.value]
              ELSE [ok |-> FALSE, name |-> oname, kind |-> "not enough space", value |-> NullValue]
       ELSE [ok |-> FALSE, name |-> oname, kind |-> "out_of_range", value |-> NullValue]

\* the values io_binding.GetOutputValues() returns after a run, in binding order
OutputValues(bindings, batch_size, input_seq_len, rows) ==
  [i \in DOMAIN bindings |->
     IF bindings[i].kind \in {"device", "caller"}
       THEN ModelOutput(bindings[i].name, bindings[i].value, batch_size, input_seq_len, rows)
       ELSE bindings[i].value]

\* variant: every output that is not a present-state output is forwarded, under
\* the mapped name if it has one
RECURSIVE HarvestToken_Everything(_, _, _)
HarvestToken_Everything(mcfg, vec_out_vals, i) ==
  IF i > Len(mcfg.output_names) THEN <<>>
  ELSE LET oname == mcfg.output_names[i]
       IN (IF ~Contains(mcfg.present_output_names, oname)[1]
             THEN << [name |-> IF oname \in DOMAIN mcfg.inter_stage_output_input_map
                                 THEN mcfg.inter_stage_output_input_map[oname] ELSE oname,
                      value |-> vec_out_vals[i]] >>
             ELSE <<>>)
          \o HarvestToken_Everything(mcfg, vec_out_vals, i + 1)

\* variant: the forwarded outputs keep their own names
RECURSIVE HarvestToken_OwnNames(_, _, _)
HarvestToken_OwnNames(mcfg, vec_out_vals, i) ==
  IF i > Len(mcfg.output_names) THEN <<>>
  ELSE LET oname == mcfg.output_names[i]
       IN (IF ~Contains(mcfg.present_output_names, oname)[1]
              /\ oname \in DOMAIN mcfg.inter_stage_output_input_map
             THEN << [name |-> oname, value |-> vec_out_vals[i]] >>
             ELSE <<>>)
          \o HarvestToken_OwnNames(mcfg, vec_out_vals, i + 1)

\* the (name, value) pairs the harvest loop appends to the output token
RECURSIVE HarvestToken(_, _, _)
HarvestToken(mcfg, vec_out_vals, i) ==
  IF i > Len(mcfg.output_names) THEN <<>>
  ELSE LET oname == mcfg.output_names[i]
       IN (IF ~Contains(mcfg.present_output_names, oname)[1]
              /\ oname \in DOMAIN mcfg.inter_stage_output_input_map
             THEN << [name |-> mcfg.inter_stage_output_input_map[oname], value |-> vec_out_vals[i]] >>
             ELSE <<>>)
          \o HarvestToken(mcfg, vec_out_vals, i + 1)

\* the output_val_map after the harvest loop
HarvestState(mcfg, run_state, vec_out_vals) ==
  [oname \in DOMAIN run_state.output_val_map \cup
             (Range(mcfg.output_names) \cap Range(mcfg.present_output_names)) |->
     IF Contains(mcfg.output_names, oname)[1] /\ Contains(mcfg.present_output_names, oname)[1]
       THEN vec_out_vals[Contains(mcfg.output_names, oname)[2] + 1]
       ELSE run_state.output_val_map[oname]]

\* variant: the past length is left out of the new state length
NewSeqLen_NoPast(input_seq_len, past_seq_len) == input_seq_len

\* new seq len for state output = seq len of the input + past_seq_len
NewSeqLen(input_seq_len, past_seq_len) == input_seq_len + past_seq_len

\* ExecuteRequest(token, mcfg, session_state, exec_frame) for the frame's own
\* token and the ModelConfig the closure captured.  run_throws: the session's Run throws; rows: the last-time-step logits
\* the model computes per lane.  Returns the frame afterwards and, when an
\* exception leaves the function, threw = TRUE and what it says.
ExecuteRequest(mcfg, exec_frame, ort_resp, run_throws, rows) ==
  LET model_idx == exec_frame.stage_id
      run_state == exec_frame.model_run_state_vec[model_idx + 1]
      token == exec_frame.token
      in_names == token.ort_value_names
      in_values == token.ort_values
      cleared == [token EXCEPT !.ort_value_names = <<>>, !.ort_values = <<>>]
      inputs == BindInputs(mcfg, run_state, in_names, in_values)
      rc == Contains(in_names, mcfg.input_to_use_for_seq_len)
      input_seq_len == in_values[rc[2] + 1].shape[mcfg.seq_len_dim_index_in_input + 1]
      past_seq_len == run_state.output_val_map[mcfg.present_output_names[1]]
                        .shape[mcfg.seq_len_dim_index_in_state + 1]
      new_seq_len == NewSeqLen(input_seq_len, past_seq_len)
      all_out == [i \in DOMAIN mcfg.output_names |->
                    BindOutput(mcfg, run_state, ort_resp, token.step_id, exec_frame.batch_size,
                               input_seq_len, new_seq_len, i - 1)]
      bad == { i \in DOMAIN all_out : ~all_out[i].ok }
      first_bad == CHOOSE i \in bad : \A j \in bad : i <= j
      bound_out == IF bad = {} THEN all_out ELSE SubSeq(all_out, 1, first_bad - 1)
      vec_out_vals == OutputValues(all_out, exec_frame.batch_size, input_seq_len, rows)
      harvested == HarvestToken(mcfg, vec_out_vals, 1)
      With(io, ovm, tok) ==
        [exec_frame EXCEPT
           !.token = tok,
           !.model_run_state_vec[model_idx + 1].io_binding = io,
           !.model_run_state_vec[model_idx + 1].output_val_map = ovm]
  IN IF ~rc[1]
       THEN [threw |-> TRUE, what |-> "not present in Token",
             frame |-> With([inputs |-> inputs, outputs |-> <<>>], run_state.output_val_map, cleared)]
     ELSE IF bad # {}
       THEN [threw |-> TRUE, what |-> all_out[first_bad].kind,
             frame |-> With([inputs |-> inputs, outputs |-> bound_out], run_state.output_val_map, cleared)]
     ELSE IF run_throws
       THEN [threw |-> TRUE, what |-> "Run failed",
             frame |-> With([inputs |-> inputs, outputs |-> bound_out], run_state.output_val_map, cleared)]
     ELSE [threw |-> FALSE, what |-> "",
           frame |-> With([inputs |-> inputs, outputs |-> bound_out],
                          HarvestState(mcfg, run_state, vec_out_vals),
                          [cleared EXCEPT
                             !.ort_value_names = [i \in DOMAIN harvested |-> harvested[i].name],
                             !.ort_values = [i \in DOMAIN harvested |-> harvested[i].value]])]

\* ------------------------------------------------ between decoding steps
\* variant: the running maximum moves to an equal element too
RECURSIVE MaxElementFrom_LastWins(_, _, _, _)
MaxElementFrom_LastWins(data, largest, i, last) ==
  IF i = last THEN largest
  ELSE MaxElementFrom_LastWins(data,
                               IF HalfToFloat(data[largest + 1]) <= HalfToFloat(data[i + 1])
                                 THEN i ELSE largest,
                               i + 1, last)

\* std::max_element over data[first, last) (0-based offsets) with the
\* comparator HalfToFloat(a) < HalfToFloat(b): the running maximum moves only
\* to a strictly greater element.
RECURSIVE MaxElementFrom(_, _, _, _)
MaxElementFrom(data, largest, i, last) ==
  IF i = last THEN largest
  ELSE MaxElementFrom(data,
                      IF HalfToFloat(data[largest + 1]) < HalfToFloat(data[i + 1]) THEN i ELSE largest,
                      i + 1, last)

MaxElement(data, first, last) ==
  IF first = last THEN last ELSE MaxElementFrom(data, first, first + 1, last)

\* the loop of GetNewInputIdsFromLogits from offset batch_id on: the ids pushed
RECURSIVE NewIdsFrom(_, _, _)
NewIdsFrom(logits, logits_shape, batch_id) ==
  LET num_elems == logits_shape[1] * logits_shape[2] * logits_shape[3]
      ltwo == logits_shape[2] * logits_shape[3]
      skip == (logits_shape[2] - 1) * logits_shape[3]
      tmp == MaxElement(logits.data, batch_id + skip, batch_id + skip + logits_shape[3])
      max_idx == tmp - (batch_id + skip)
  IN IF batch_id >= num_elems THEN <<>>
     ELSE <<max_idx>> \o NewIdsFrom(logits, logits_shape, batch_id + ltwo)

\* variant: one lane predicting EOS is taken for all of them
GetNewInputIdsFromLogits_AnyEos(batch_size, logits, logits_shape, eos_token) ==
  LET input_ids == NewIdsFrom(logits, logits_shape, 0)
      num_eos_tokens_predicted == Cardinality({ i \in DOMAIN input_ids : input_ids[i] = eos_token })
  IN [ input_ids |-> input_ids,
       input_ids_shape |-> <<batch_size, 1>>,
       are_all_input_ids_eos_tokens |-> (num_eos_tokens_predicted > 0) ]

\* variant: the shape of the new input_ids is two tokens wide
GetNewInputIdsFromLogits_Wide(batch_size, logits, logits_shape, eos_token) ==
  LET input_ids == NewIdsFrom(logits, logits_shape, 0)
      num_eos_tokens_predicted == Cardinality({ i \in DOMAIN input_ids : input_ids[i] = eos_token })
  IN [ input_ids |-> input_ids,
       input_ids_shape |-> <<batch_size, 2>>,
       are_all_input_ids_eos_tokens |-> (num_eos_tokens_predicted = batch_size) ]

\* GetNewInputIdsFromLogits: input_ids, input_ids_shape, are_all_input_ids_eos_tokens
GetNewInputIdsFromLogits(batch_size, logits, logits_shape, eos_token) ==
  LET input_ids == NewIdsFrom(logits, logits_shape, 0)
      num_eos_tokens_predicted == Cardinality({ i \in DOMAIN input_ids : input_ids[i] = eos_token })
  IN [ input_ids |-> input_ids,
       input_ids_shape |-> <<batch_size, 1>>,
       are_all_input_ids_eos_tokens |-> (num_eos_tokens_predicted = batch_size) ]

\* variant: the new position is one further on
GetNewPosnIds_OneAhead(batch_size, orig_input_seq_len, step_id) ==
  [i \in 1..batch_size |-> orig_input_seq_len + step_id]

\* GetNewPosnIds
GetNewPosnIds(batch_size, orig_input_seq_len, step_id) ==
  [i \in 1..batch_size |-> orig_input_seq_len + step_id - 1]

\* CopyFinalOutput from resp_index (0-based) on: the response slot and the
\* token afterwards, and the name it failed on when it returned a failure.
RECURSIVE CopyFinalOutputFrom(_, _, _)
CopyFinalOutputFrom(token, ort_resp, resp_index) ==
  IF resp_index >= Len(ort_resp.output_names)
    THEN [ok |-> TRUE, token |-> token, ort_resp |-> ort_resp, missing |-> NoName]
  ELSE LET oname == ort_resp.output_names[resp_index + 1]
           ex == Contains(token.ort_value_names, oname)
       IN IF ex[1]
            THEN CopyFinalOutputFrom(
                   [token EXCEPT !.ort_values[ex[2] + 1] = NullValue],
                   [ort_resp EXCEPT !.output_values[resp_index + 1] = token.ort_values[ex[2] + 1]],
                   resp_index + 1)
            ELSE [ok |-> FALSE, token |-> token, ort_resp |-> ort_resp, missing |-> oname]

\* variant: a requested output that is missing is passed over
CopyFinalOutput_Lenient(token, ort_resp) ==
  [CopyFinalOutputFrom(token, ort_resp, 0) EXCEPT !.ok = TRUE]

CopyFinalOutput(token, ort_resp) == CopyFinalOutputFrom(token, ort_resp, 0)

\* ValidateRequest: the message of the status it returns, NoMsg for nullptr
RECURSIVE ValidateSlots(_, _, _)
ValidateSlots(reqs, resps, i) ==
  IF i >= Len(reqs) THEN NoMsg
  ELSE IF Len(reqs[i + 1].input_names) # Len(reqs[i + 1].input_values)
    THEN Msg("Size of request names and OrtValues differ for index", i, NoName)
  ELSE IF Len(resps[i + 1].output_values) # Len(resps[i + 1].output_names)
    THEN Msg("Size of response names and OrtValues differ for index", i, NoName)
  ELSE ValidateSlots(reqs, resps, i + 1)

\* variant: only the lengths of the two lists are compared
ValidateRequest_ListsOnly(reqs, resps) ==
  IF Len(reqs) # Len(resps)
    THEN Msg("Size of request and response lists differ.", 0, NoName)
    ELSE NoMsg

ValidateRequest(reqs, resps) ==
  IF Len(reqs) # Len(resps)
    THEN Msg("Size of request and response lists differ.", 0, NoName)
    ELSE ValidateSlots(reqs, resps, 0)

\* ---------------------------------------------------------------- state
VARIABLES
  pc,               \* where the thread calling Run is
  num_steps,        \* Run's argument
  req_list,         \* Run's argument
  resp_list,        \* Run's argument; CopyFinalOutput writes its output_values
  req_idx,          \* loop index of SetupAndScheduleAllRequestsToStage0
  static_req_id,    \* the static counter of CreateRequestId
  req_frame_map,    \* Run's local map ReqId -> RequestExecutionFrame
  pipeline_stages,  \* per stage: the queued closures and the one its worker runs
  resp_queue,       \* Run's local ResponseQueue: Token pointers, oldest first
  token_ptr,        \* the Token popped by ProcessResponses (its req_id), 0: none
  req_processed,    \* ProcessResponses' counter
  status,           \* what Run returned
  drain_idx,        \* HandleAndReturnFailure: the stage being drained
  fail_msg,         \* HandleAndReturnFailure: its error_msg argument
  ub,               \* a closure ran on a frame that was already destroyed
  exec_log,         \* history: per req_id, the stage_id each ExecuteRequest call saw
  sched_log,        \* history: per req_id, the stage each ScheduleTask call went to
  done_log,         \* history: per req_id, how the request ended and after which step
  posn_log          \* history: per req_id, the position ids regenerated after each step

\* ------------------------------------------- state of the Yield / Hole kernels
VARIABLES
  kernel,           \* the kernel whose Compute runs: its op, counts and attributes
  compute_pc,       \* where the thread running Compute is
  i_in,             \* Compute's loop index over the inputs
  i_out,            \* Compute's loop index over the outputs
  message_queue,    \* OrtMessageQueue::GetInstance(): the values, oldest first
  event_pool,       \* OrtEventPool::GetInstance(): per event id, the token it is signalled with
  op_outputs,       \* the outputs Compute has set so far
  other_pc,         \* where the thread on the other side of the rendezvous is
  compute_log       \* history: what Compute did, in order

kernelVars == << kernel, compute_pc, i_in, i_out, message_queue, event_pool, op_outputs,
                 other_pc, compute_log >>

pipelineVars == << num_models, unrouted_model, pc, num_steps, req_list, resp_list, req_idx,
                   static_req_id, req_frame_map, pipeline_stages, resp_queue, token_ptr,
                   req_processed, status, drain_idx, fail_msg, ub, exec_log, sched_log,
                   done_log, posn_log >>

vars == << pipelineVars, kernelVars >>

\* the event ids Compute uses
main_thread_event_id == 0
background_thread_event_id == 1

\* an event token: one of OrtEventPool's TOKEN_ constants plus an offset
EventToken(base, offset) == [base |-> base, offset |-> offset]
\* the token of an event that is not signalled
NotSignaled == EventToken("TOKEN_NOT_SIGNALED", 0)

\* no kernel is computing
NoKernel == [op |-> "", InputCount |-> 0, OutputCount |-> 0, external_fn |-> 0, is_backward |-> 0]

KernelAtRest ==
  /\ kernel = NoKernel
  /\ compute_pc = "idle"
  /\ i_in = 0
  /\ i_out = 0
  /\ message_queue = <<>>
  /\ event_pool = [id \in {main_thread_event_id, background_thread_event_id} |-> NotSignaled]
  /\ op_outputs = <<>>
  /\ other_pc = "idle"
  /\ compute_log = <<>>

ReqIds == 1..MaxReqs

\* a closure: the request whose frame and token it references, and the stage
\* whose ModelConfig and SessionState it captured
Task(req_id, stage_id) == [req_id |-> req_id, stage_id |-> stage_id]
NoTask == Task(0, -1)

Status(code, msg) == [code |-> code, msg |-> msg]
NoStatus == Status("", NoMsg)

NotDone == [how |-> "", step_id |-> 0]

\* ------------------------------------------------------- Run's arguments
Request(batch_size) ==
  [ input_names |-> <<Name("input_ids"), Name("position_ids")>>,
    input_values |-> << Tensor(<<"caller_input", 0>>, <<batch_size, OrigSeqLen>>, <<>>),
                        Tensor(<<"caller_input", 1>>, <<batch_size, OrigSeqLen>>, <<>>) >> ]

\* a request whose inputs are as long as the preallocated state buffers
LongRequest(batch_size) ==
  [ Request(batch_size) EXCEPT
      !.input_values = [i \in DOMAIN @ |-> [@[i] EXCEPT !.shape = <<batch_size, pcfg.max_seq_len>>]] ]

\* a request with one value fewer than names
ShortRequest(batch_size) ==
  [ Request(batch_size) EXCEPT !.input_values = SubSeq(@, 1, 1) ]

\* a response slot asking for the outputs `names`; with_meminfo: each is to be
\* bound to a device, else the caller supplies a preallocated tensor for each
Response(names, with_meminfo) ==
  [ output_names |-> names,
    output_values |-> [i \in DOMAIN names |->
                         IF with_meminfo THEN NullValue
                         ELSE Tensor(<<"caller_output", i - 1>>, <<>>, <<>>)],
    output_meminfo |-> [i \in DOMAIN names |-> with_meminfo] ]

\* a response slot with no value for its last name
ShortResponse(names) ==
  [ Response(names, TRUE) EXCEPT !.output_values = SubSeq(@, 1, Len(names) - 1) ]

Responses ==
  { Response(<<Name("logits")>>, TRUE),
    Response(<<Name("logits")>>, FALSE),
    Response(<<Name("logits"), Name("scores")>>, TRUE),
    Response(<<>>, TRUE) }

\* The batches Run is called with.  Every request of a batch has the same batch
\* size and asks for the same outputs; a batch of one request has any of the
\* batch sizes and responses, a longer one has batch size 1 and asks for the
\* logits, alone or with scores, which no stage routes.  Beside these well-formed
\* batches, one list is shorter than the other or one slot's names and values
\* differ in number; and one request's inputs are max_seq_len long.
Batches ==
  { [reqs |-> <<LongRequest(1)>>, resps |-> <<Response(<<Name("logits")>>, TRUE)>>] } \cup
  { [reqs |-> [i \in 1..n |-> Request(b)], resps |-> [i \in 1..n |-> r]] :
      n \in 0..1, b \in BatchSizes, r \in Responses }
  \cup { [reqs |-> [i \in 1..n |-> Request(1)], resps |-> [i \in 1..n |-> r]] :
           n \in 2..MaxReqs,
           r \in { Response(<<Name("logits")>>, TRUE),
                   Response(<<Name("logits"), Name("scores")>>, TRUE) } }
  \cup { [reqs |-> [i \in 1..n |-> Request(1)],
          resps |-> [i \in 1..(n - 1) |-> Response(<<Name("logits")>>, TRUE)]] : n \in 1..MaxReqs }
  \cup { [reqs |-> [i \in 1..n |-> IF i = n THEN ShortRequest(1) ELSE Request(1)],
          resps |-> [i \in 1..n |-> Response(<<Name("logits")>>, TRUE)]] : n \in 1..MaxReqs }
  \cup { [reqs |-> [i \in 1..n |-> Request(1)],
          resps |-> [i \in 1..n |-> IF i = n THEN ShortResponse(<<Name("logits")>>)
                                             ELSE Response(<<Name("logits")>>, TRUE)]] : n \in 1..MaxReqs }

Init ==
  /\ num_models \in 1..NumStages
  /\ unrouted_model \in -1..(num_models - 1)
  /\ pc = "Run"
  /\ num_steps \in 0..MaxNumSteps
  /\ \E b \in Batches : req_list = b.reqs /\ resp_list = b.resps
  /\ req_idx = 0
  /\ static_req_id = 0
  /\ req_frame_map = [r \in {} |-> NewFrame(0, 0, 1, 0, 0)]
  /\ pipeline_stages = [i \in 1..pcfg.num_stages |-> [queue |-> <<>>, running |-> NoTask]]
  /\ resp_queue = <<>>
  /\ token_ptr = 0
  /\ req_processed = 0
  /\ status = NoStatus
  /\ drain_idx = 0
  /\ fail_msg = NoMsg
  /\ ub = FALSE
  /\ exec_log = [r \in ReqIds |-> <<>>]
  /\ sched_log = [r \in ReqIds |-> <<>>]
  /\ done_log = [r \in ReqIds |-> NotDone]
  /\ posn_log = [r \in ReqIds |-> <<>>]
  /\ KernelAtRest

\* ------------------------------------------------------- PipelineStage
\* PipelineStage::ScheduleTask: the closure joins the stage's FIFO queue
ScheduleTask(stages, stage_id, task) ==
  [stages EXCEPT ![stage_id + 1].queue = Append(@, task)]

\* the stage has nothing queued and its worker is idle
Drained(stage) == stage.queue = <<>> /\ stage.running = NoTask

\* variant: the closure is enqueued twice
ScheduleRequest_Twice(stages, exec_frame) ==
  ScheduleTask(ScheduleTask(stages, exec_frame.stage_id, Task(exec_frame.req_id, exec_frame.stage_id)),
               exec_frame.stage_id, Task(exec_frame.req_id, exec_frame.stage_id))

\* variant: the closure is enqueued on the frame's stage and on the one after it
ScheduleRequest_NextToo(stages, exec_frame) ==
  ScheduleTask(ScheduleTask(stages, exec_frame.stage_id, Task(exec_frame.req_id, exec_frame.stage_id)),
               (exec_frame.stage_id + 1) % pcfg.num_stages,
               Task(exec_frame.req_id, (exec_frame.stage_id + 1) % pcfg.num_stages))

\* variant: the closure jumps the queue of its stage
ScheduleRequest_Front(stages, exec_frame) ==
  [stages EXCEPT ![exec_frame.stage_id + 1].queue =
     <<Task(exec_frame.req_id, exec_frame.stage_id)>> \o @]

\* the lambda built around ThreadWorkerFn and its ScheduleTask call: one closure
\* for the frame, on the stage the frame is at
ScheduleRequest(stages, exec_frame) ==
  ScheduleTask(stages, exec_frame.stage_id, Task(exec_frame.req_id, exec_frame.stage_id))

Logged(log, exec_frame) ==
  [log EXCEPT ![exec_frame.req_id] = Append(@, exec_frame.stage_id)]

\* ------------------------------------------------------------------ Run
histVars == << exec_log, sched_log, done_log, posn_log >>
argVars == << num_models, unrouted_model, num_steps, req_list >>
failVars == << drain_idx, fail_msg >>

\* Run, lines 650-656: ValidateRequest, then the locals are constructed
RunValidate ==
  /\ pc = "Run"
  /\ LET msg == ValidateRequest(req_list, resp_list)
     IN IF msg # NoMsg
          THEN pc' = "returned" /\ status' = Status("ORT_INVALID_ARGUMENT", msg)
          ELSE pc' = "setup" /\ status' = status
  /\ UNCHANGED << kernelVars, argVars, resp_list, req_idx, static_req_id, req_frame_map, pipeline_stages,
                  resp_queue, token_ptr, req_processed, failVars, ub, histVars >>

\* one iteration of the loop of SetupAndScheduleAllRequestsToStage0
SetupRequest ==
  /\ pc = "setup"
  /\ req_idx < Len(req_list)
  /\ LET req_id == static_req_id + 1
         one_req == req_list[req_idx + 1]
         mcfg0 == pcfg.model_config_vec[1]
         rc == Contains(one_req.input_names, mcfg0.input_to_use_for_seq_len)
         shape == one_req.input_values[rc[2] + 1].shape
         orig_seq_len == shape[mcfg0.seq_len_dim_index_in_input + 1]
         batch_size == shape[mcfg0.batch_dim_index_in_input + 1]
         tmp_exec_frame == NewFrame(req_idx, req_id, batch_size, orig_seq_len, 0)
         exec_frame == [tmp_exec_frame EXCEPT
                          !.token = TokenInit(req_id, 0, one_req.input_names, one_req.input_values)]
     IN /\ static_req_id' = req_id
        /\ req_frame_map' = [r \in DOMAIN req_frame_map \cup {req_id} |->
                               IF r \in DOMAIN req_frame_map THEN req_frame_map[r] ELSE exec_frame]
        /\ pipeline_stages' = ScheduleRequest(pipeline_stages, exec_frame)
        /\ sched_log' = Logged(sched_log, exec_frame)
  /\ req_idx' = req_idx + 1
  /\ UNCHANGED << kernelVars, pc, argVars, resp_list, resp_queue, token_ptr, req_processed, status,
                  failVars, ub, exec_log, done_log, posn_log >>

\* Constructing a frame throws (a device allocation fails in GetAllocation):
\* nothing in Run or SetupAndScheduleAllRequestsToStage0 catches it, so the
\* stack unwinds through Run and destroys req_frame_map and resp_queue.
SetupThrows ==
  /\ pc = "setup"
  /\ req_idx < Len(req_list)
  /\ pc' = "returned"
  /\ status' = Status("exception", Msg("GetAllocation failed", static_req_id + 1, NoName))
  /\ static_req_id' = static_req_id + 1
  /\ req_frame_map' = [r \in {} |-> NewFrame(0, 0, 1, 0, 0)]
  /\ resp_queue' = <<>>
  /\ UNCHANGED << kernelVars, argVars, resp_list, req_idx, pipeline_stages, token_ptr, req_processed,
                  failVars, ub, histVars >>

\* Run, lines 660-661: ProcessResponses is entered
EnterProcessResponses ==
  /\ pc = "setup"
  /\ req_idx >= Len(req_list)
  /\ pc' = "loop"
  /\ req_processed' = 0
  /\ UNCHANGED << kernelVars, argVars, resp_list, req_idx, static_req_id, req_frame_map, pipeline_stages,
                  resp_queue, token_ptr, status, failVars, ub, histVars >>

\* variant: the loop stops one request early
LoopContinues_OneShort(processed, num_reqs) == processed + 1 < num_reqs

\* while (req_processed < num_reqs)
LoopContinues(processed, num_reqs) == processed < num_reqs

\* variant: the loop over the stages is skipped
HandleAndReturnFailure_SkipDrain(error_msg) ==
  /\ pc' = "drain"
  /\ drain_idx' = pcfg.num_stages
  /\ fail_msg' = error_msg

\* HandleAndReturnFailure(error_msg) is entered
HandleAndReturnFailure(error_msg) ==
  /\ pc' = "drain"
  /\ drain_idx' = 0
  /\ fail_msg' = error_msg

\* while (req_processed < num_reqs) is false: return nullptr
LoopExit ==
  /\ pc = "loop"
  /\ ~LoopContinues(req_processed, Len(req_list))
  /\ pc' = "epilogue"
  /\ status' = Status("OK", NoMsg)
  /\ UNCHANGED << kernelVars, argVars, resp_list, req_idx, static_req_id, req_frame_map, pipeline_stages,
                  resp_queue, token_ptr, req_processed, failVars, ub, histVars >>

\* resp_queue.WaitAndPop returns kSuccess with the oldest token
WaitAndPop ==
  /\ pc = "loop"
  /\ LoopContinues(req_processed, Len(req_list))
  /\ resp_queue # <<>>
  /\ token_ptr' = Head(resp_queue)
  /\ resp_queue' = Tail(resp_queue)
  /\ pc' = "dispatch"
  /\ UNCHANGED << kernelVars, argVars, resp_list, req_idx, static_req_id, req_frame_map, pipeline_stages,
                  req_processed, status, failVars, ub, histVars >>

\* resp_queue.WaitAndPop times out: no token arrived within the wait
WaitTimesOut ==
  /\ pc = "loop"
  /\ LoopContinues(req_processed, Len(req_list))
  /\ resp_queue = <<>>
  /\ HandleAndReturnFailure(Msg("Request processing timed out after 1000 ms", 0, NoName))
  /\ UNCHANGED << kernelVars, argVars, resp_list, req_idx, static_req_id, req_frame_map, pipeline_stages,
                  resp_queue, token_ptr, req_processed, status, ub, histVars >>

\* HandleAndReturnFailure: DrainAllInflightRequests returns for the next stage
DrainStage ==
  /\ pc = "drain"
  /\ drain_idx < pcfg.num_stages
  /\ Drained(pipeline_stages[drain_idx + 1])
  /\ drain_idx' = drain_idx + 1
  /\ UNCHANGED << kernelVars, pc, argVars, resp_list, req_idx, static_req_id, req_frame_map, pipeline_stages,
                  resp_queue, token_ptr, req_processed, status, fail_msg, ub, histVars >>

\* HandleAndReturnFailure: every stage is drained, the status is created and
\* handed back to Run
ReturnFailure ==
  /\ pc = "drain"
  /\ drain_idx >= pcfg.num_stages
  /\ pc' = "epilogue"
  /\ status' = Status("ORT_FAIL", fail_msg)
  /\ UNCHANGED << kernelVars, argVars, resp_list, req_idx, static_req_id, req_frame_map, pipeline_stages,
                  resp_queue, token_ptr, req_processed, failVars, ub, histVars >>

\* Run, line 662: return status; req_frame_map and resp_queue go out of scope
RunReturn ==
  /\ pc = "epilogue"
  /\ pc' = "returned"
  /\ req_frame_map' = [r \in {} |-> NewFrame(0, 0, 1, 0, 0)]
  /\ resp_queue' = <<>>
  /\ UNCHANGED << kernelVars, argVars, resp_list, req_idx, static_req_id, pipeline_stages, token_ptr,
                  req_processed, status, failVars, ub, histVars >>

\* ----------------------------------------------------- ProcessResponses
\* variant: the stage index is advanced without wrapping around to stage 0
NextStageId_NoWrap(stage_id) ==
  IF stage_id + 1 < pcfg.num_stages THEN stage_id + 1 ELSE stage_id

\* exec_frame.stage_id = (exec_frame.stage_id + 1) % pcfg.num_stages
NextStageId(stage_id) == (stage_id + 1) % pcfg.num_stages

\* variant: the error message of a popped token is not looked at
HasError_Ignored(token) == FALSE

\* !token_ptr->error_msg.empty()
HasError(token) == token.error_msg # NoMsg

\* variant: the frame of a finished request stays in the map
EraseFrame_Keep(map, req_id) == map

\* req_frame_map.erase(req_id)
EraseFrame(map, req_id) == [r \in DOMAIN map \ {req_id} |-> map[r]]

\* next_step_input_buffer_map[name] with its data (and shape) assigned;
\* operator[] creates the entry
SetBuffer(map, name, data, shape) ==
  [n \in DOMAIN map \cup {name} |-> IF n = name THEN [data |-> data, shape |-> shape] ELSE map[n]]

BufferShape(map, name) == IF name \in DOMAIN map THEN map[name].shape ELSE <<>>

\* The request ends: CopyFinalOutput, and on success the request is done.
FinishRequest(exec_frame, token, ort_resp, how, step_id) ==
  LET cf == CopyFinalOutput(token, ort_resp)
  IN IF cf.ok
       THEN [kind |-> "finished", how |-> how, step_id |-> step_id, msg |-> NoMsg,
             frame |-> [exec_frame EXCEPT !.token = cf.token], ort_resp |-> cf.ort_resp]
       ELSE [kind |-> "fail", how |-> how, step_id |-> step_id,
             msg |-> Msg("Error: Output is not produced by the final stage", 0, cf.missing),
             frame |-> [exec_frame EXCEPT !.token = cf.token], ort_resp |-> cf.ort_resp]

\* variant: the rebuilt token keeps the step_id of the step that is over
StepIdOfNewToken_Same(step_id) == step_id - 1

\* token_ptr->step_id = step_id, the counter incremented at line 537
StepIdOfNewToken(step_id) == step_id

\* The step is over and the request goes on (lines 549-596): the new input ids
\* and position ids, or the end of the request when every lane predicts EOS.
NextStep(exec_frame, token, ort_resp, req_id, step_id) ==
  LET batch_size == exec_frame.batch_size
      rc == Contains(token.ort_value_names, pcfg.logits_name)
      logits_ort_val == token.ort_values[rc[2] + 1]
      ids == GetNewInputIdsFromLogits(batch_size, logits_ort_val, logits_ort_val.shape, pcfg.eos_token)
      map1 == SetBuffer(exec_frame.next_step_input_buffer_map, pcfg.input_ids_name,
                        ids.input_ids, ids.input_ids_shape)
      frame1 == [exec_frame EXCEPT !.next_step_input_buffer_map = map1]
      input_ids_tensor == Tensor(<<"next_step_input_buffer", 0>>, ids.input_ids_shape, ids.input_ids)
      posn_ids == GetNewPosnIds(batch_size, exec_frame.orig_input_seq_len, step_id)
      map2 == SetBuffer(map1, pcfg.logits_name, posn_ids, BufferShape(map1, pcfg.logits_name))
      posn_ids_tensor == Tensor(<<"next_step_input_buffer", 1>>, ids.input_ids_shape, posn_ids)
      new_token == [TokenClear(token) EXCEPT
                      !.req_id = req_id,
                      !.step_id = StepIdOfNewToken(step_id),
                      !.ort_value_names = <<pcfg.input_ids_name, pcfg.position_ids_name>>,
                      !.ort_values = <<input_ids_tensor, posn_ids_tensor>>]
  IN IF ~rc[1]
       THEN [kind |-> "fail", how |-> "", step_id |-> step_id,
             msg |-> Msg("Did not get logits in the output", 0, NoName),
             frame |-> exec_frame, ort_resp |-> ort_resp]
     ELSE IF ids.are_all_input_ids_eos_tokens
       THEN FinishRequest(frame1, token, ort_resp, "eos", step_id)
     ELSE [kind |-> "schedule", how |-> "", step_id |-> step_id, msg |-> NoMsg,
           frame |-> [frame1 EXCEPT !.next_step_input_buffer_map = map2, !.token = new_token],
           ort_resp |-> ort_resp]

\* The body of the while loop after a successful pop (lines 526-603): what is
\* to be done next, the frame and the response slot afterwards.
ProcessToken(exec_frame, ort_resp, nsteps) ==
  LET token == exec_frame.token
      req_id == token.req_id
      step_id == token.step_id
      frame1 == [exec_frame EXCEPT !.stage_id = NextStageId(exec_frame.stage_id)]
  IN IF HasError(token)
       THEN [kind |-> "fail", how |-> "", step_id |-> step_id, msg |-> token.error_msg,
             frame |-> exec_frame, ort_resp |-> ort_resp]
     ELSE IF frame1.stage_id = 0
       THEN IF step_id + 1 = nsteps
              THEN FinishRequest(frame1, token, ort_resp, "num_steps", step_id + 1)
              ELSE NextStep(frame1, token, ort_resp, req_id, step_id + 1)
     ELSE [kind |-> "schedule", how |-> "", step_id |-> step_id, msg |-> NoMsg,
           frame |-> [frame1 EXCEPT !.token.req_id = req_id, !.token.step_id = step_id],
           ort_resp |-> ort_resp]

\* the position ids a rebuilt token carries into the next step (lines 587-596)
PosnIdsOf(token) ==
  token.ort_values[Contains(token.ort_value_names, pcfg.position_ids_name)[2] + 1].data

\* One iteration of the while loop of ProcessResponses on the popped token.
Dispatch ==
  /\ pc = "dispatch"
  /\ token_ptr' = 0
  /\ UNCHANGED << kernelVars, argVars, req_idx, static_req_id, resp_queue, status, ub, exec_log >>
  /\ \E out \in { ProcessToken(req_frame_map[token_ptr],
                                 resp_list[req_frame_map[token_ptr].req_index + 1], num_steps) } :
     LET req_id == req_frame_map[token_ptr].token.req_id
         exec_frame == req_frame_map[req_id]
     IN /\ out.kind = "schedule" => out.frame.token.step_id <= MaxNumSteps
        /\ resp_list' = [resp_list EXCEPT ![exec_frame.req_index + 1] = out.ort_resp]
        /\ CASE out.kind = "fail" ->
                  /\ HandleAndReturnFailure(out.msg)
                  /\ req_frame_map' = [req_frame_map EXCEPT ![req_id] = out.frame]
                  /\ UNCHANGED << pipeline_stages, req_processed, sched_log, done_log, posn_log >>
             [] out.kind = "finished" ->
                  /\ req_frame_map' = EraseFrame(req_frame_map, req_id)
                  /\ req_processed' = req_processed + 1
                  /\ done_log' = [done_log EXCEPT ![req_id] = [how |-> out.how, step_id |-> out.step_id]]
                  /\ pc' = "loop"
                  /\ UNCHANGED << pipeline_stages, sched_log, posn_log, failVars >>
             [] out.kind = "schedule" ->
                  /\ req_frame_map' = [req_frame_map EXCEPT ![req_id] = out.frame]
                  /\ pipeline_stages' = ScheduleRequest(pipeline_stages, out.frame)
                  /\ sched_log' = Logged(sched_log, out.frame)
                  /\ posn_log' = IF out.frame.stage_id = 0
                                   THEN [posn_log EXCEPT ![req_id] = Append(@, PosnIdsOf(out.frame.token))]
                                   ELSE posn_log
                  /\ pc' = "loop"
                  /\ UNCHANGED << req_processed, done_log, failVars >>

\* ------------------------------------------------------ stage workers
\* the worker of stage s takes the oldest closure of its queue
WorkerDequeue(s) ==
  /\ pc # "crashed"
  /\ pipeline_stages[s + 1].running = NoTask
  /\ pipeline_stages[s + 1].queue # <<>>
  /\ pipeline_stages' = [pipeline_stages EXCEPT
                           ![s + 1].running = Head(pipeline_stages[s + 1].queue),
                           ![s + 1].queue = Tail(@)]
  /\ UNCHANGED << kernelVars, pc, argVars, resp_list, req_idx, static_req_id, req_frame_map, resp_queue,
                  token_ptr, req_processed, status, failVars, ub, histVars >>

\* the logits a run of the frame's stage may compute, per lane
RowChoices(exec_frame) ==
  IF exec_frame.stage_id = pcfg.num_stages - 1
    THEN [1..exec_frame.batch_size -> LogitRows]
    ELSE { [i \in 1..exec_frame.batch_size |-> FillerRow] }

\* variant: the error token starts over at step 0
PushedToken_StepLost(in_token, result) ==
  IF result.threw
    THEN [result.frame.token EXCEPT
            !.req_id = in_token.req_id,
            !.step_id = 0,
            !.error_msg = Msg("Error in processing request id", in_token.req_id, Name(result.what))]
    ELSE result.frame.token

\* the token ThreadWorkerFn pushes: ExecuteRequest's, or the frame's token with
\* the error when ExecuteRequest threw
PushedToken(in_token, result) ==
  IF result.threw
    THEN [result.frame.token EXCEPT
            !.req_id = in_token.req_id,
            !.step_id = in_token.step_id,
            !.error_msg = Msg("Error in processing request id", in_token.req_id, Name(result.what))]
    ELSE result.frame.token

\* ThreadWorkerFn: the closure the worker of stage s is running executes the
\* request and pushes the token onto the response queue; the closure is over.
ThreadWorkerFn(s) ==
  /\ pc # "crashed"
  /\ pipeline_stages[s + 1].running # NoTask
  /\ pipeline_stages' = [pipeline_stages EXCEPT ![s + 1].running = NoTask]
  /\ UNCHANGED << kernelVars, pc, argVars, resp_list, req_idx, static_req_id, token_ptr, req_processed,
                  status, failVars, ub, sched_log, done_log, posn_log >>
  /\ LET task == pipeline_stages[s + 1].running
         req_id == task.req_id
     IN /\ req_id \in DOMAIN req_frame_map
        /\ LET exec_frame == req_frame_map[req_id]
           IN \E run_throws \in BOOLEAN, rows \in RowChoices(exec_frame) :
                \E result \in { ExecuteRequest(pcfg.model_config_vec[task.stage_id + 1], exec_frame,
                                                resp_list[exec_frame.req_index + 1], run_throws, rows) } :
                   /\ req_frame_map' = [req_frame_map EXCEPT
                                          ![req_id] = [result.frame EXCEPT
                                                         !.token = PushedToken(exec_frame.token, result)]]
                   /\ resp_queue' = Append(resp_queue, req_id)
                   /\ exec_log' = Logged(exec_log, exec_frame)

\* The closure the worker of stage s is running references a frame, a token
\* and a response queue that were destroyed when Run was left: undefined
\* behaviour.  Either nothing visible happens or the process dies.
ThreadWorkerFnDangling(s) ==
  /\ pc # "crashed"
  /\ pipeline_stages[s + 1].running # NoTask
  /\ pipeline_stages[s + 1].running.req_id \notin DOMAIN req_frame_map
  /\ ub' = TRUE
  /\ \/ /\ pipeline_stages' = [pipeline_stages EXCEPT ![s + 1].running = NoTask]
        /\ pc' = pc
     \/ /\ pc' = "crashed"
        /\ UNCHANGED pipeline_stages
  /\ UNCHANGED << kernelVars, argVars, resp_list, req_idx, static_req_id, req_frame_map, resp_queue,
                  token_ptr, req_processed, status, failVars, histVars >>

Next ==
  \/ RunValidate
  \/ SetupRequest
  \/ SetupThrows
  \/ EnterProcessResponses
  \/ LoopExit
  \/ WaitAndPop
  \/ WaitTimesOut
  \/ Dispatch
  \/ DrainStage
  \/ ReturnFailure
  \/ RunReturn
  \/ \E s \in StageIds : WorkerDequeue(s)
  \/ \E s \in StageIds : ThreadWorkerFn(s)
  \/ \E s \in StageIds : ThreadWorkerFnDangling(s)

Spec == Init /\ [][Next]_vars

\* the steps of the thread that called Run, exceptions aside
Orchestrator ==
  \/ RunValidate
  \/ SetupRequest
  \/ EnterProcessResponses
  \/ LoopExit
  \/ WaitAndPop
  \/ WaitTimesOut
  \/ Dispatch
  \/ DrainStage
  \/ ReturnFailure
  \/ RunReturn

\* the steps of the stage workers on closures whose frames exist
Workers == \E s \in StageIds : WorkerDequeue(s) \/ ThreadWorkerFn(s)

\* Run is called with num_steps >= 1
FairInit == Init /\ num_steps >= 1

\* The calling thread keeps running, and the stage workers take the closures
\* of their queues and run each of them to its push.
FairSpec ==
  /\ FairInit
  /\ [][Next]_vars
  /\ WF_vars(Orchestrator)
  /\ WF_vars(Workers)

\* ============================================== Yield and Hole kernels
\* largest InputCount, OutputCount and external_fn of a kernel
MaxInputCount == 2
MaxOutputCount == 2
MaxExternalFn == 1

\* the kernels whose Compute is run: a Yield, or a Hole with its attributes
\* external_fn and is_backward (an int64; any non-zero value counts as set)
Kernels ==
  { [op |-> "Yield", InputCount |-> n, OutputCount |-> m, external_fn |-> 0, is_backward |-> 0] :
      n \in 0..MaxInputCount, m \in 0..MaxOutputCount }
  \cup
  { [op |-> "Hole", InputCount |-> n, OutputCount |-> m, external_fn |-> f, is_backward |-> b] :
      n \in 0..MaxInputCount, m \in 0..MaxOutputCount, f \in 0..MaxExternalFn, b \in {0, 1, 2} }

\* *ctx_internal->GetInputMLValue(i_in)
InputMLValue(i) == <<"input", i>>
\* the values the other thread hands back
ReturnedMLValue(j) == <<"returned", j>>

\* OrtMessageQueue::Push
Push(queue, value) == Append(queue, value)

\* OrtEventPool::SignalEvent(id, token): the event carries the token
SignalEvent(pool, id, token) == [pool EXCEPT ![id] = token]

\* OrtEventPool::ResetAndWaitEvent(id), on entry: the event is reset; the
\* caller then blocks until the event is signalled
ResetEvent(pool, id) == [pool EXCEPT ![id] = NotSignaled]

\* variant: every Hole signals the forward token
ForwardToken_Always(k) ==
  IF k.op = "Yield" THEN EventToken("TOKEN_YIELD_END_FORWARD", 0)
  ELSE EventToken("TOKEN_HOLE_FORWARD", k.external_fn)

\* the token Compute signals the main-thread event with
ForwardToken(k) ==
  IF k.op = "Yield" THEN EventToken("TOKEN_YIELD_END_FORWARD", 0)
  ELSE IF k.is_backward # 0 THEN EventToken("TOKEN_HOLE_BACKWARD", k.external_fn)
  ELSE EventToken("TOKEN_HOLE_FORWARD", k.external_fn)

\* The pipeline session is not in use.
PipelineAtRest ==
  /\ num_models = 1
  /\ unrouted_model = -1
  /\ pc = "idle"
  /\ num_steps = 0
  /\ req_list = <<>>
  /\ resp_list = <<>>
  /\ req_idx = 0
  /\ static_req_id = 0
  /\ req_frame_map = [r \in {} |-> NewFrame(0, 0, 1, 0, 0)]
  /\ pipeline_stages = [i \in 1..pcfg.num_stages |-> [queue |-> <<>>, running |-> NoTask]]
  /\ resp_queue = <<>>
  /\ token_ptr = 0
  /\ req_processed = 0
  /\ status = NoStatus
  /\ drain_idx = 0
  /\ fail_msg = NoMsg
  /\ ub = FALSE
  /\ exec_log = [r \in ReqIds |-> <<>>]
  /\ sched_log = [r \in ReqIds |-> <<>>]
  /\ done_log = [r \in ReqIds |-> NotDone]
  /\ posn_log = [r \in ReqIds |-> <<>>]

\* Compute of one kernel is entered on the background thread; the queue is
\* empty, no event is signalled, and the other thread waits for the
\* main-thread event.
KernelInit ==
  /\ PipelineAtRest
  /\ kernel \in Kernels
  /\ compute_pc = "push"
  /\ i_in = 0
  /\ i_out = 0
  /\ message_queue = <<>>
  /\ event_pool = [id \in {main_thread_event_id, background_thread_event_id} |-> NotSignaled]
  /\ op_outputs = <<>>
  /\ other_pc = "wait"
  /\ compute_log = <<>>

\* the loop over the inputs: one Push
ComputePush ==
  /\ compute_pc = "push"
  /\ i_in < kernel.InputCount
  /\ message_queue' = Push(message_queue, InputMLValue(i_in))
  /\ i_in' = i_in + 1
  /\ compute_log' = Append(compute_log, [what |-> "Push", arg |-> i_in, token |-> NotSignaled])
  /\ UNCHANGED << pipelineVars, kernel, compute_pc, i_out, event_pool, op_outputs, other_pc >>

\* the loop is over: SignalEvent(main_thread_event_id, token)
ComputeSignal ==
  /\ compute_pc = "push"
  /\ i_in >= kernel.InputCount
  /\ event_pool' = SignalEvent(event_pool, main_thread_event_id, ForwardToken(kernel))
  /\ compute_pc' = "wait"
  /\ compute_log' = Append(compute_log, [what |-> "SignalEvent", arg |-> main_thread_event_id,
                                         token |-> ForwardToken(kernel)])
  /\ UNCHANGED << pipelineVars, kernel, i_in, i_out, message_queue, op_outputs, other_pc >>

\* ResetAndWaitEvent(background_thread_event_id) is entered: the event is reset
ComputeResetAndWait ==
  /\ compute_pc = "wait"
  /\ event_pool' = ResetEvent(event_pool, background_thread_event_id)
  /\ compute_pc' = "blocked"
  /\ compute_log' = Append(compute_log, [what |-> "ResetAndWaitEvent",
                                         arg |-> background_thread_event_id, token |-> NotSignaled])
  /\ UNCHANGED << pipelineVars, kernel, i_in, i_out, message_queue, op_outputs, other_pc >>

\* ResetAndWaitEvent returns: the event was signalled after the reset
ComputeResume ==
  /\ compute_pc = "blocked"
  /\ event_pool[background_thread_event_id] # NotSignaled
  /\ compute_pc' = "pop"
  /\ compute_log' = Append(compute_log, [what |-> "resumed", arg |-> background_thread_event_id,
                                         token |-> event_pool[background_thread_event_id]])
  /\ UNCHANGED << pipelineVars, kernel, i_in, i_out, message_queue, event_pool, op_outputs, other_pc >>

\* the loop over the outputs: one Pop into output i_out
ComputePop ==
  /\ compute_pc = "pop"
  /\ i_out < kernel.OutputCount
  /\ message_queue # <<>>
  /\ op_outputs' = Append(op_outputs, Head(message_queue))
  /\ message_queue' = Tail(message_queue)
  /\ i_out' = i_out + 1
  /\ compute_log' = Append(compute_log, [what |-> "Pop", arg |-> i_out, token |-> NotSignaled])
  /\ UNCHANGED << pipelineVars, kernel, compute_pc, i_in, event_pool, other_pc >>

\* return Status::OK()
ComputeReturn ==
  /\ compute_pc = "pop"
  /\ i_out >= kernel.OutputCount
  /\ compute_pc' = "OK"
  /\ UNCHANGED << pipelineVars, kernel, i_in, i_out, message_queue, event_pool, op_outputs,
                  other_pc, compute_log >>

\* the other thread observes the main-thread event signalled
OtherObserves ==
  /\ other_pc = "wait"
  /\ event_pool[main_thread_event_id] # NotSignaled
  /\ other_pc' = "exchange"
  /\ UNCHANGED << pipelineVars, kernel, compute_pc, i_in, i_out, message_queue, event_pool,
                  op_outputs, compute_log >>

\* the other thread takes what was pushed and leaves the values to return
OtherExchanges ==
  /\ other_pc = "exchange"
  /\ message_queue' = [j \in 1..kernel.OutputCount |-> ReturnedMLValue(j - 1)]
  /\ other_pc' = "signal"
  /\ UNCHANGED << pipelineVars, kernel, compute_pc, i_in, i_out, event_pool, op_outputs, compute_log >>

\* the other thread signals the background-thread event, once
OtherSignals ==
  /\ other_pc = "signal"
  /\ event_pool' = SignalEvent(event_pool, background_thread_event_id, EventToken("TOKEN_CONTINUE", 0))
  /\ other_pc' = "done"
  /\ UNCHANGED << pipelineVars, kernel, compute_pc, i_in, i_out, message_queue, op_outputs, compute_log >>

Compute ==
  \/ ComputePush
  \/ ComputeSignal
  \/ ComputeResetAndWait
  \/ ComputeResume
  \/ ComputePop
  \/ ComputeReturn

OtherThread ==
  \/ OtherObserves
  \/ OtherExchanges
  \/ OtherSignals

KernelNext ==
  \/ ComputePush
  \/ ComputeSignal
  \/ ComputeResetAndWait
  \/ ComputeResume
  \/ ComputePop
  \/ ComputeReturn
  \/ OtherObserves
  \/ OtherExchanges
  \/ OtherSignals

KernelSpec == KernelInit /\ [][KernelNext]_vars

\* both threads keep running: neither stops at a step it can take
KernelFairSpec ==
  /\ KernelInit
  /\ [][KernelNext]_vars
  /\ WF_vars(Compute)
  /\ WF_vars(OtherThread)

\* ================================================================ claims
\* the closures of request r that are queued on, or run by, stage s
QueuedAt(r, s) == { i \in DOMAIN pipeline_stages[s + 1].queue : pipeline_stages[s + 1].queue[i].req_id = r }
RunningAt(r, s) == pipeline_stages[s + 1].running.req_id = r
ClosuresOf(r) ==
  { <<s, 0>> : s \in { t \in StageIds : RunningAt(r, t) } }
  \cup UNION { { <<s, i>> : i \in QueuedAt(r, s) } : s \in StageIds }

\* a pipeline order: entry i is stage (i - 1) mod num_stages
InPipelineOrder(log) == \A i \in DOMAIN log : log[i] = (i - 1) % pcfg.num_stages

\* C1: the stage_id values successive ExecuteRequest calls of a request observe
\* are 0, 1, ..., num_stages-1, 0, 1, ...; every closure of the request after
\* the first is scheduled after an execution completed, at most one per
\* completed execution, on the queue of the stage following the stage that
\* execution ran at, and it sits on the queue of the stage its frame is at.
C1_StageOrder ==
  \A r \in ReqIds :
    /\ InPipelineOrder(exec_log[r])
    /\ Len(sched_log[r]) <= Len(exec_log[r]) + 1
    /\ \A i \in DOMAIN sched_log[r] :
         /\ i = 1 => sched_log[r][i] = 0
         /\ i > 1 => /\ i - 1 \in DOMAIN exec_log[r]
                     /\ sched_log[r][i] = (exec_log[r][i - 1] + 1) % pcfg.num_stages
    /\ \A c \in ClosuresOf(r) :
         LET task == IF c[2] = 0 THEN pipeline_stages[c[1] + 1].running
                                 ELSE pipeline_stages[c[1] + 1].queue[c[2]]
         IN /\ task.stage_id = c[1]
            /\ sched_log[r][Len(sched_log[r])] = c[1]
            /\ r \in DOMAIN req_frame_map => req_frame_map[r].stage_id = c[1]

\* a request went through every stage and was executed at stage 0 again, and
\* its next closure is queued on stage 1 mod num_stages
C1_Witness ==
  \E r \in ReqIds :
    /\ pcfg.num_stages = NumStages
    /\ Len(exec_log[r]) = NumStages + 1
    /\ Len(sched_log[r]) = NumStages + 2
    /\ QueuedAt(r, 1 % NumStages) # {}

\* C2: a request never has more than one closure queued or executing, and
\* while the orchestrator holds the request's popped token (the only time it
\* reads or writes the frame's stage_id and token) and while the token waits in
\* the response queue the request has none.
C2_OneOwner ==
  \A r \in ReqIds :
    /\ Cardinality(ClosuresOf(r)) <= 1
    /\ (pc = "dispatch" /\ token_ptr = r) => ClosuresOf(r) = {}
    /\ (\E i \in DOMAIN resp_queue : resp_queue[i] = r) => ClosuresOf(r) = {}

\* the orchestrator works on one request's frame while a worker executes
\* another request
C2_Witness ==
  /\ pc = "dispatch"
  /\ Len(exec_log[token_ptr]) >= 1
  /\ \E r \in ReqIds \ {token_ptr}, s \in StageIds : RunningAt(r, s) /\ r \in DOMAIN req_frame_map

\* C3: a request that ended normally (num_steps reached or all-EOS) had
\* num_stages * steps_executed closures scheduled, with steps_executed <=
\* num_steps, for every num_steps >= 0.
C3_ClosureCount ==
  \A r \in ReqIds :
    done_log[r].how # "" =>
      /\ Len(sched_log[r]) = pcfg.num_stages * done_log[r].step_id
      /\ done_log[r].step_id <= num_steps

\* how often ExecuteRequest has run for request r at stage s
ExecutionsAt(r, s) == Cardinality({ i \in DOMAIN exec_log[r] : exec_log[r][i] = s })

\* the last execution of request r, at stage s, threw
LastThrewAt(r, s) ==
  /\ exec_log[r] # <<>>
  /\ exec_log[r][Len(exec_log[r])] = s
  /\ r \in DOMAIN req_frame_map
  /\ req_frame_map[r].token.error_msg # NoMsg

\* the buffer of slot k written at step t, and the one read at step t
WrittenAt(t, k) == IF t % 2 = 0 THEN <<"buffer_2", k>> ELSE <<"buffer_1", k>>
ReadAt(t, k) == IF t = 0 THEN <<"buffer_1", k>> ELSE WrittenAt(t - 1, k)

\* C4: in the binding a stage made for a request at step t (t = 0 included),
\* the present-state output of slot k lies in buffer-2 when t is even and in
\* buffer-1 when t is odd, the past-state input lies in the buffer written at
\* step t - 1 (buffer-1 at step 0), and the two are different buffers.
C4_PingPong ==
  \A r \in DOMAIN req_frame_map : \A s \in StageIds : \A k \in Slots :
    LET io == req_frame_map[r].model_run_state_vec[s + 1].io_binding
        t == ExecutionsAt(r, s) - 1
        outs == { i \in DOMAIN io.outputs : io.outputs[i].name = PresentName(k) }
    IN (outs # {} /\ PastName(k) \in DOMAIN io.inputs) =>
         /\ t >= 0
         /\ \A i \in outs : io.outputs[i].value.buf = WrittenAt(t, k)
         /\ io.inputs[PastName(k)].buf = ReadAt(t, k)
         /\ \A i \in outs : io.outputs[i].value.buf # io.inputs[PastName(k)].buf

\* at its second execution (step 1) a stage reads buffer-2, which it wrote at
\* step 0, and writes buffer-1
C4_Witness ==
  \E r \in DOMAIN req_frame_map : \E s \in StageIds : \E k \in Slots :
    LET io == req_frame_map[r].model_run_state_vec[s + 1].io_binding
    IN /\ ExecutionsAt(r, s) = 2
       /\ PastName(k) \in DOMAIN io.inputs
       /\ io.inputs[PastName(k)].buf = <<"buffer_2", k>>
       /\ \E i \in DOMAIN io.outputs :
            io.outputs[i].name = PresentName(k) /\ io.outputs[i].value.buf = <<"buffer_1", k>>

\* C5: every output_val_map entry of a stage has sequence length 0 before the
\* stage first executed for the request, the caller's input length after the
\* prefill, and one more after each further decoding step.
C5_StateSeqLen ==
  \A r \in DOMAIN req_frame_map : \A s \in StageIds :
    LET run_state == req_frame_map[r].model_run_state_vec[s + 1]
        mcfg == pcfg.model_config_vec[s + 1]
        n == ExecutionsAt(r, s) - (IF LastThrewAt(r, s) THEN 1 ELSE 0)
    IN \A oname \in DOMAIN run_state.output_val_map :
         run_state.output_val_map[oname].shape[mcfg.seq_len_dim_index_in_state + 1]
           = IF n = 0 THEN 0 ELSE req_frame_map[r].orig_input_seq_len + (n - 1)

\* a stage has executed the prefill and one decoding step
C5_Witness ==
  \E r \in DOMAIN req_frame_map : \E s \in StageIds :
    /\ ExecutionsAt(r, s) = 2
    /\ ~LastThrewAt(r, s)
    /\ req_frame_map[r].orig_input_seq_len = OrigSeqLen
    /\ \A k \in Slots :
         req_frame_map[r].model_run_state_vec[s + 1].output_val_map[PresentName(k)].shape[2]
           = OrigSeqLen + 1

\* the requests set up so far that have not ended
LiveRequests == { r \in 1..req_idx : done_log[r].how = "" }

PoppedFrame == req_frame_map[token_ptr]
PoppedToken == PoppedFrame.token

\* the orchestrator aborts the batch because it popped an error token
ErrorAbort == fail_msg.kind = "Error in processing request id"

\* C7: when the orchestrator pops a token with a non-empty error_msg it
\* schedules nothing, enters HandleAndReturnFailure with that message, from
\* then on no closure is scheduled and no token is dispatched, every stage is
\* drained when the status is created, and the status Run returns is ORT_FAIL
\* with the error_msg of that first error token.
C7_ErrorAborts ==
  [][ /\ (pc = "dispatch" /\ pc' # "dispatch" /\ PoppedToken.error_msg # NoMsg) =>
           /\ pc' = "drain"
           /\ fail_msg' = PoppedToken.error_msg
           /\ sched_log' = sched_log
           /\ pipeline_stages' = pipeline_stages
      /\ (pc \in {"drain", "epilogue"} /\ ErrorAbort) =>
           /\ pc' \in {"drain", "epilogue", "returned"}
           /\ sched_log' = sched_log
           /\ fail_msg' = fail_msg
           /\ token_ptr' = 0
           /\ req_processed' = req_processed
      /\ (pc = "drain" /\ pc' = "epilogue" /\ ErrorAbort) =>
           /\ \A s \in StageIds : Drained(pipeline_stages[s + 1])
           /\ status' = Status("ORT_FAIL", fail_msg)
      /\ (pc = "epilogue" /\ pc' = "returned" /\ ErrorAbort) =>
           /\ status' = status
           /\ \A s \in StageIds : Drained(pipeline_stages'[s + 1])
    ]_vars

\* Run is about to return the error of one request while the token of another
\* request, pushed meanwhile, is left in the response queue
C7_Witness ==
  /\ pc = "epilogue"
  /\ status = Status("ORT_FAIL", fail_msg)
  /\ ErrorAbort
  /\ \E i \in DOMAIN resp_queue : resp_queue[i] # fail_msg.id

\* C8: when Run has returned on an error that came after a closure was
\* scheduled, every stage had been drained: no closure of this Run is queued
\* or executing.
C8_DrainedOnError ==
  ( /\ pc = "returned"
    /\ ~ub
    /\ status.code \notin {"OK", "ORT_INVALID_ARGUMENT"}
    /\ \E r \in ReqIds : sched_log[r] # <<>> )
  => \A s \in StageIds : Drained(pipeline_stages[s + 1])

\* a final output was transferred into the response value
Transferred(value) == value.shape # <<>>

\* C9: when Run has returned a failure no response slot holds a transferred
\* final output, and when it has returned success every slot is populated.
C9_NoPartialSuccess ==
  pc = "returned" =>
    \A i \in DOMAIN resp_list : \A k \in DOMAIN resp_list[i].output_values :
      Transferred(resp_list[i].output_values[k]) <=> (status.code = "OK")

\* the logit of vocabulary entry j (0-based) in the last time step of a lane
LastStepLogit(logits, lane, j) ==
  HalfToFloat(logits.data[lane * logits.shape[2] * logits.shape[3]
                          + (logits.shape[2] - 1) * logits.shape[3] + j + 1])

\* the first maximum of the lane's last time step is at the EOS token
LanePredictsEos(logits, lane) ==
  /\ \A j \in 0..(pcfg.eos_token - 1) :
       LastStepLogit(logits, lane, j) < LastStepLogit(logits, lane, pcfg.eos_token)
  /\ \A j \in (pcfg.eos_token + 1)..(logits.shape[3] - 1) :
       LastStepLogit(logits, lane, j) <= LastStepLogit(logits, lane, pcfg.eos_token)

PoppedLogits ==
  PoppedToken.ort_values[Contains(PoppedToken.ort_value_names, pcfg.logits_name)[2] + 1]

\* the popped token comes from the last stage, carries the logits, and the
\* step it completes comes before the num_steps-th
AtStepBoundary ==
  /\ pc = "dispatch"
  /\ PoppedToken.error_msg = NoMsg
  /\ PoppedFrame.stage_id = pcfg.num_stages - 1
  /\ PoppedToken.step_id + 1 < num_steps
  /\ Contains(PoppedToken.ort_value_names, pcfg.logits_name)[1]

OthersUntouched(r) ==
  /\ \A q \in DOMAIN req_frame_map \ {r} :
       q \in DOMAIN req_frame_map' /\ req_frame_map'[q] = req_frame_map[q]
  /\ \A q \in ReqIds \ {r} : sched_log'[q] = sched_log[q] /\ done_log'[q] = done_log[q]
  /\ \A i \in DOMAIN resp_list : i # req_frame_map[r].req_index + 1 => resp_list'[i] = resp_list[i]
  /\ resp_queue' = resp_queue

\* what the orchestrator's step does with a token popped at a step boundary;
\* copy_may_fail admits the outcome where CopyFinalOutput reports a requested
\* output that the token does not carry
EosStep(copy_may_fail) ==
  /\ (AtStepBoundary /\ pc' # "dispatch") =>
       LET r == token_ptr
           slot == PoppedFrame.req_index + 1
           all_eos == \A lane \in 0..(PoppedFrame.batch_size - 1) : LanePredictsEos(PoppedLogits, lane)
           at == Contains(resp_list[slot].output_names, pcfg.logits_name)
       IN /\ OthersUntouched(r)
          /\ IF all_eos
               THEN /\ sched_log' = sched_log
                    /\ pipeline_stages' = pipeline_stages
                    /\ \/ /\ pc' = "loop"
                          /\ r \notin DOMAIN req_frame_map'
                          /\ req_processed' = req_processed + 1
                          /\ done_log'[r] = [how |-> "eos", step_id |-> PoppedToken.step_id + 1]
                          /\ at[1] => resp_list'[slot].output_values[at[2] + 1] = PoppedLogits
                       \/ /\ copy_may_fail
                          /\ pc' = "drain"
                          /\ fail_msg'.kind = "Error: Output is not produced by the final stage"
                          /\ ~Contains(PoppedToken.ort_value_names, fail_msg'.name)[1]
                          /\ Contains(resp_list[slot].output_names, fail_msg'.name)[1]
                          /\ r \in DOMAIN req_frame_map'
                          /\ req_processed' = req_processed
               ELSE /\ pc' = "loop"
                    /\ r \in DOMAIN req_frame_map'
                    /\ req_frame_map'[r].token.step_id = PoppedToken.step_id + 1
                    /\ sched_log'[r] = Append(sched_log[r], 0)
                    /\ pipeline_stages'[1].queue = Append(pipeline_stages[1].queue, Task(r, 0))
                    /\ req_processed' = req_processed
                    /\ done_log'[r] = done_log[r]
  /\ \A r \in ReqIds :
       done_log[r].how # "" =>
         /\ sched_log'[r] = sched_log[r]
         /\ ClosuresOf(r) = {}
         /\ r \notin DOMAIN req_frame_map

\* C10 (amended): at a step boundary before the num_steps-th, if every
\* lane's argmax is the EOS token no closure is scheduled and CopyFinalOutput is
\* called: either it transfers the outputs (the response receives the logits of
\* the step just completed, the frame is erased and the request counted), or it
\* reports a requested output that the final token does not carry and the batch
\* fails with the frame kept and the request not counted.  If some lane differs
\* the request's next step is scheduled on stage 0.  Nothing of the other
\* requests changes, and an ended request never gets another closure.
C10_EosEndsRequest == [][EosStep(TRUE)]_vars

\* C10 (as stated): every all-EOS step boundary before the num_steps-th ends
\* the request through CopyFinalOutput with its
\* frame erased and the request counted as processed.
C10_AsStated == [][EosStep(FALSE)]_vars

\* a request ended on all-EOS before num_steps while another one is in flight
C10_Witness ==
  \E r \in ReqIds :
    /\ done_log[r].how = "eos"
    /\ done_log[r].step_id < num_steps
    /\ \E q \in DOMAIN req_frame_map : q # r
    /\ Transferred(resp_list[r].output_values[1])

\* every request of the batch has ended, after all num_steps steps or after a
\* step at which every lane predicted EOS, and ran every stage in each step
AllTerminated ==
  /\ req_processed = Len(req_list)
  /\ \A r \in ReqIds :
       IF r <= Len(req_list)
         THEN /\ done_log[r].how \in {"num_steps", "eos"}
              /\ done_log[r].how = "num_steps" => done_log[r].step_id = num_steps
              /\ done_log[r].how = "eos" => done_log[r].step_id \in 1..(num_steps - 1)
              /\ Len(exec_log[r]) = pcfg.num_stages * done_log[r].step_id
         ELSE done_log[r] = NotDone

\* C11: for num_steps >= 1, when the calling thread keeps running and every
\* stage worker runs the closures scheduled on it, Run eventually returns; and
\* whenever it has returned success every request of the batch has ended, each
\* after num_steps steps or after an all-EOS step.
C11_RunReturns ==
  <>(pc = "returned" /\ (status.code = "OK" => AllTerminated))

\* Run returned success for two requests, one ended by EOS and one by num_steps
C11_Witness ==
  /\ pc = "returned"
  /\ status.code = "OK"
  /\ num_steps >= 2
  /\ Len(req_list) = 2
  /\ done_log[1].how = "eos"
  /\ done_log[2].how = "num_steps"

\* the orchestrator aborts the batch because WaitAndPop timed out
TimeoutAbort == fail_msg.kind = "Request processing timed out after 1000 ms"

\* C12: when WaitAndPop returns without a token while requests are unfinished
\* the orchestrator schedules nothing, enters HandleAndReturnFailure with the
\* timeout message, from then on schedules no closure and dispatches no token
\* (tokens pushed meanwhile stay in the response queue), every stage is
\* drained when the status is created, and Run returns that ORT_FAIL status.
C12_TimeoutAborts ==
  [][ /\ (pc = "loop" /\ pc' # "loop" /\ resp_queue = <<>> /\ req_processed < Len(req_list)) =>
           /\ pc' = "drain"
           /\ fail_msg'.kind = "Request processing timed out after 1000 ms"
           /\ sched_log' = sched_log
           /\ pipeline_stages' = pipeline_stages
           /\ req_frame_map' = req_frame_map
      /\ (pc \in {"drain", "epilogue"} /\ TimeoutAbort) =>
           /\ pc' \in {"drain", "epilogue", "returned"}
           /\ sched_log' = sched_log
           /\ fail_msg' = fail_msg
           /\ token_ptr' = 0
           /\ req_processed' = req_processed
           /\ Len(resp_queue') >= Len(resp_queue) \/ pc' = "returned"
      /\ (pc = "drain" /\ pc' = "epilogue" /\ TimeoutAbort) =>
           /\ \A s \in StageIds : Drained(pipeline_stages[s + 1])
           /\ status' = Status("ORT_FAIL", fail_msg)
      /\ (pc = "epilogue" /\ pc' = "returned" /\ TimeoutAbort) =>
           /\ status' = status
           /\ status.code = "ORT_FAIL"
           /\ \A s \in StageIds : Drained(pipeline_stages'[s + 1])
    ]_vars

\* Run is about to return the timeout failure of a batch of two requests while
\* tokens pushed by closures that completed during the drain were left in the
\* response queue
C12_Witness ==
  /\ pc = "epilogue"
  /\ status = Status("ORT_FAIL", fail_msg)
  /\ TimeoutAbort
  /\ Len(req_list) = 2
  /\ Len(resp_queue) = 2

\* Run's arguments are malformed: the lists differ in length, or a request's
\* names and values do, or a response's names and values do
Malformed ==
  \/ Len(req_list) # Len(resp_list)
  \/ \E i \in DOMAIN req_list : Len(req_list[i].input_names) # Len(req_list[i].input_values)
  \/ \E i \in DOMAIN resp_list : Len(resp_list[i].output_names) # Len(resp_list[i].output_values)

\* C13: when Run's arguments are malformed Run does nothing but return an
\* ORT_INVALID_ARGUMENT status: no request id is derived, no frame is created,
\* no closure is scheduled or executed and no response value is written.
C13_InvalidArgument ==
  Malformed =>
    /\ pc \in {"Run", "returned"}
    /\ pc = "returned" => status.code = "ORT_INVALID_ARGUMENT" /\ status.msg # NoMsg
    /\ static_req_id = 0
    /\ req_idx = 0
    /\ DOMAIN req_frame_map = {}
    /\ \A s \in StageIds : Drained(pipeline_stages[s + 1])
    /\ resp_queue = <<>>
    /\ \A r \in ReqIds : sched_log[r] = <<>> /\ exec_log[r] = <<>> /\ done_log[r] = NotDone
    /\ \A i \in DOMAIN resp_list : \A k \in DOMAIN resp_list[i].output_values :
         ~Transferred(resp_list[i].output_values[k])

\* Run returned InvalidArgument for a batch whose second response slot lacks a
\* value for one of its names
C13_Witness ==
  /\ pc = "returned"
  /\ status.code = "ORT_INVALID_ARGUMENT"
  /\ Len(req_list) = 2
  /\ Len(resp_list) = 2
  /\ Len(resp_list[2].output_names) # Len(resp_list[2].output_values)

\* the orchestrator aborts the batch because a requested output is missing
MissingAbort == fail_msg.kind = "Error: Output is not produced by the final stage"

\* the requested output names of the popped request that its token lacks
MissingOutputs ==
  LET names == resp_list[PoppedFrame.req_index + 1].output_names
  IN { i \in DOMAIN names : ~Contains(PoppedToken.ort_value_names, names[i])[1] }

\* the popped token ends its request: it comes from the last stage without an
\* error and completes the num_steps-th step, or every lane predicts EOS
PoppedEndsRequest ==
  /\ pc = "dispatch"
  /\ PoppedToken.error_msg = NoMsg
  /\ PoppedFrame.stage_id = pcfg.num_stages - 1
  /\ \/ PoppedToken.step_id + 1 = num_steps
     \/ /\ Contains(PoppedToken.ort_value_names, pcfg.logits_name)[1]
        /\ \A lane \in 0..(PoppedFrame.batch_size - 1) : LanePredictsEos(PoppedLogits, lane)

\* C14: when a request ends and its final token lacks a requested output the
\* orchestrator enters HandleAndReturnFailure naming the first such output as
\* not produced by the final stage; the request is not counted, its frame
\* stays in the map, nothing is scheduled, every stage is drained when the
\* status is created and Run returns that ORT_FAIL status.
C14_MissingFinalOutput ==
  [][ /\ (PoppedEndsRequest /\ MissingOutputs # {} /\ pc' # "dispatch") =>
           LET names == resp_list[PoppedFrame.req_index + 1].output_names
               first == CHOOSE i \in MissingOutputs : \A j \in MissingOutputs : i <= j
           IN /\ pc' = "drain"
              /\ fail_msg' = Msg("Error: Output is not produced by the final stage", 0, names[first])
              /\ req_processed' = req_processed
              /\ token_ptr \in DOMAIN req_frame_map'
              /\ done_log' = done_log
              /\ sched_log' = sched_log
              /\ pipeline_stages' = pipeline_stages
      /\ (pc \in {"drain", "epilogue"} /\ MissingAbort) =>
           /\ pc' \in {"drain", "epilogue", "returned"}
           /\ sched_log' = sched_log
           /\ fail_msg' = fail_msg
           /\ req_processed' = req_processed
           /\ pc' # "returned" => DOMAIN req_frame_map' = DOMAIN req_frame_map
      /\ (pc = "drain" /\ pc' = "epilogue" /\ MissingAbort) =>
           /\ \A s \in StageIds : Drained(pipeline_stages[s + 1])
           /\ status' = Status("ORT_FAIL", fail_msg)
      /\ (pc = "epilogue" /\ pc' = "returned" /\ MissingAbort) =>
           /\ status' = status
           /\ status.code = "ORT_FAIL"
    ]_vars

\* Run is about to return the failure naming "scores": the request completed
\* all of its num_steps >= 2 steps and its frame is still in the map
C14_Witness ==
  /\ pc = "epilogue"
  /\ MissingAbort
  /\ status = Status("ORT_FAIL", fail_msg)
  /\ fail_msg.name = Name("scores")
  /\ num_steps >= 2
  /\ \E r \in DOMAIN req_frame_map :
       /\ Len(exec_log[r]) = pcfg.num_stages * num_steps
       /\ done_log[r] = NotDone

\* ------------------------------------------------------------------ C15
\* the closure of request r ran in this step
ClosureRan(r) == r \in DOMAIN req_frame_map /\ exec_log'[r] # exec_log[r]

\* the state sequence length the closure of request r computes:
\* input_seq_len + past_seq_len of the stage the frame is at
StateSeqLenOf(r) ==
  LET frame == req_frame_map[r]
      mcfg == pcfg.model_config_vec[frame.stage_id + 1]
      rc == Contains(frame.token.ort_value_names, mcfg.input_to_use_for_seq_len)
      input_seq_len == frame.token.ort_values[rc[2] + 1].shape[mcfg.seq_len_dim_index_in_input + 1]
      past_seq_len == frame.model_run_state_vec[frame.stage_id + 1]
                        .output_val_map[mcfg.present_output_names[1]]
                        .shape[mcfg.seq_len_dim_index_in_state + 1]
  IN IF rc[1] THEN input_seq_len + past_seq_len ELSE 0

\* a step whose state would be longer than max_seq_len ends in an error token,
\* binds no oversized state tensor and leaves the state of the stage alone
OverflowReported(r) ==
  LET s == req_frame_map[r].stage_id
      before == req_frame_map[r].model_run_state_vec[s + 1]
      after == req_frame_map'[r].model_run_state_vec[s + 1]
  IN /\ StateSeqLenOf(r) > pcfg.max_seq_len =>
          /\ HasError(req_frame_map'[r].token)
          /\ after.output_val_map = before.output_val_map
     /\ \A i \in DOMAIN after.io_binding.outputs :
          after.io_binding.outputs[i].kind = "state" =>
            2 * NumElements(after.io_binding.outputs[i].value.shape)
              <= before.present_past_prealloc_buffer_1_vec[1].size

\* a request with max_seq_len = orig_input_seq_len + num_steps never meets the
\* overflow error
ExactFitSucceeds(r) ==
  req_frame_map[r].orig_input_seq_len + num_steps = pcfg.max_seq_len =>
    /\ StateSeqLenOf(r) <= pcfg.max_seq_len
    /\ req_frame_map'[r].token.error_msg.name # Name("not enough space")

\* C15: a run whose max_seq_len equals orig_input_seq_len + num_steps never
\* runs into the state buffers' limit, and a step whose state sequence length
\* (input_seq_len + past_seq_len) would exceed max_seq_len is reported as an
\* error instead of binding an oversized state tensor.
C15_MaxSeqLen ==
  [][ \A r \in ReqIds : ClosureRan(r) => OverflowReported(r) /\ ExactFitSucceeds(r) ]_vars

\* the part of C15 about the overflowing step alone
C15_OverflowIsAnError ==
  [][ \A r \in ReqIds : ClosureRan(r) => OverflowReported(r) ]_vars

\* a closure overflowed the state buffers and its token carries the error
C15_Witness ==
  \E r \in DOMAIN req_frame_map :
    /\ req_frame_map[r].token.error_msg.name = Name("not enough space")
    /\ req_frame_map[r].token.step_id >= 1


\* ------------------------------------------------------------------ C16
\* request r of the list is a well-formed one of orig_input_seq_len OrigSeqLen
\* and ran through all its steps without predicting EOS on every lane
RanAllSteps(r) ==
  /\ r <= Len(req_list)
  /\ \E b \in BatchSizes : req_list[r] = Request(b)
  /\ done_log[r].how = "num_steps"
  /\ done_log[r].step_id = num_steps

\* the values found in the position ids regenerated for request r
PosnValues(r) == UNION { Range(posn_log[r][k]) : k \in DOMAIN posn_log[r] }

\* C16 (amended): a request of a two-stage ensemble run with num_steps = 3 and
\* orig_input_seq_len = 5 that meets no EOS has exactly 6 closures executed,
\* and the position ids are regenerated twice, after the steps 0 and 1: all
\* lanes 5, then all lanes 6 (orig_input_seq_len + step_id - 1 for the
\* step_id 1 and 2 of the steps they start).
C16_PositionIds ==
  \A r \in ReqIds :
    (pcfg.num_stages = 2 /\ num_steps = 3 /\ OrigSeqLen = 5 /\ RanAllSteps(r)) =>
      /\ Len(exec_log[r]) = 6
      /\ Len(posn_log[r]) = 2
      /\ \A k \in 1..2 : \A i \in DOMAIN posn_log[r][k] : posn_log[r][k][i] = OrigSeqLen + k - 1
      /\ PosnValues(r) = {5, 6}

\* C16 as stated: ... three different regenerated position-id values, 5, 6
\* and 7.
C16_AsStated ==
  \A r \in ReqIds :
    (pcfg.num_stages = 2 /\ num_steps = 3 /\ OrigSeqLen = 5 /\ RanAllSteps(r)) =>
      /\ Len(exec_log[r]) = 6
      /\ PosnValues(r) = {5, 6, 7}

C16_Witness ==
  /\ pcfg.num_stages = 2
  /\ num_steps = 3
  /\ RanAllSteps(1)
  /\ Len(exec_log[1]) = 6
  /\ Len(posn_log[1]) = 2


\* ------------------------------------------------------------------ C17
\* C17: in no reachable state do two closures of the same request execute
\* simultaneously (the workers of two stages never run the same request);
\* that stage s+1 executes request A while stage s executes another request B
\* for the same step is the reachable state C17_Witness.
C17_NoSelfOverlap ==
  \A s1, s2 \in StageIds :
    (/\ s1 # s2
     /\ pipeline_stages[s1 + 1].running # NoTask
     /\ pipeline_stages[s2 + 1].running # NoTask) =>
      pipeline_stages[s1 + 1].running.req_id # pipeline_stages[s2 + 1].running.req_id

\* pipeline overlap: stage s+1 runs request A's step t while stage s runs
\* request B's step t
C17_Witness ==
  \E s \in StageIds, A, B \in DOMAIN req_frame_map :
    /\ s + 1 \in StageIds
    /\ A # B
    /\ RunningAt(A, s + 1)
    /\ RunningAt(B, s)
    /\ req_frame_map[A].stage_id = s + 1
    /\ req_frame_map[B].stage_id = s
    /\ req_frame_map[A].token.step_id = req_frame_map[B].token.step_id
    /\ ~ub


\* ------------------------------------------------------------------ C18
IsPrefix(a, b) == Len(a) <= Len(b) /\ SubSeq(b, 1, Len(a)) = a

\* What a step does to stage s: its worker starts a closure only when it is
\* idle and then takes the one scheduled longest ago, and closures scheduled
\* meanwhile queue up behind those already waiting.
FifoStep(s) ==
  LET stage == pipeline_stages[s + 1]
      stage_after == pipeline_stages'[s + 1]
  IN IF stage_after.running # stage.running /\ stage_after.running # NoTask
       THEN /\ stage.running = NoTask
            /\ stage.queue # <<>>
            /\ stage_after.running = Head(stage.queue)
            /\ IsPrefix(Tail(stage.queue), stage_after.queue)
       ELSE IsPrefix(stage.queue, stage_after.queue)

\* the step-0 closure of request r is still waiting in the queue of stage 0
FirstWaiting(r) == Len(sched_log[r]) = 1 /\ QueuedAt(r, 0) # {}

\* the step-0 closures waiting at stage 0 are in request-list order, and none
\* is waiting while that of a later request of the list has been started
StageZeroOrder ==
  \A q, r \in 1..req_idx :
    (q < r /\ FirstWaiting(q)) =>
      /\ FirstWaiting(r)
      /\ \A i \in QueuedAt(q, 0), j \in QueuedAt(r, 0) : i < j

\* C18: with one worker per stage, closures scheduled on the same stage are
\* executed one at a time in the order in which they were scheduled; stage 0
\* executes the step-0 closures of the batch in request-list order.
C18_Fifo ==
  [][ (\A s \in StageIds : FifoStep(s)) /\ StageZeroOrder' ]_vars

\* the worker of stage 0 runs the first request's step-0 closure while the
\* second request's waits behind it
C18_Witness ==
  /\ req_idx = 2
  /\ RunningAt(1, 0)
  /\ exec_log[1] = <<>>
  /\ FirstWaiting(2)
  /\ ~ub


\* ------------------------------------------------------------------ C19
\* the orchestrator handles a popped token that carries no error, in an
\* ensemble of one stage
SingleStagePop ==
  /\ pcfg.num_stages = 1
  /\ pc = "dispatch"
  /\ pc' # "dispatch"
  /\ PoppedToken.error_msg = NoMsg

\* the sequence length of the state the only stage keeps for the popped request
PoppedStateSeqLen ==
  LET mcfg == pcfg.model_config_vec[1]
  IN PoppedFrame.model_run_state_vec[1].output_val_map[mcfg.present_output_names[1]]
       .shape[mcfg.seq_len_dim_index_in_state + 1]

\* the buffer the state the only stage keeps for the popped request lies in
PoppedStateBuffer ==
  PoppedFrame.model_run_state_vec[1].output_val_map[pcfg.model_config_vec[1].present_output_names[1]].buf

\* the step the popped token completes is finalised: the request ends, or the
\* run fails, or the closure of the next step is scheduled on stage 0
Finalised ==
  LET r == token_ptr
      step_id == PoppedToken.step_id + 1
  IN /\ PoppedFrame.stage_id = 0
     /\ r \in DOMAIN req_frame_map' => req_frame_map'[r].stage_id = 0
     /\ \/ done_log'[r].how # "" /\ done_log'[r].step_id = step_id /\ r \notin DOMAIN req_frame_map'
        \/ pc' = "drain" /\ sched_log' = sched_log
        \/ /\ req_frame_map'[r].token.step_id = step_id
           /\ sched_log'[r] = Append(sched_log[r], 0)
           /\ pipeline_stages'[1].queue = Append(pipeline_stages[1].queue, Task(r, 0))

\* num_steps = 2 and the popped token of step 0 does not predict EOS on every
\* lane: the state was updated once, new input_ids of shape [batch_size, 1]
\* are injected and the second closure is scheduled
BetweenTheSteps ==
  LET r == token_ptr
      new_token == req_frame_map'[r].token
      rc == Contains(new_token.ort_value_names, pcfg.input_ids_name)
  IN (/\ num_steps = 2
      /\ PoppedToken.step_id = 0
      /\ \E lane \in 0..(PoppedFrame.batch_size - 1) : ~LanePredictsEos(PoppedLogits, lane)) =>
       /\ exec_log[r] = <<0>>
       /\ PoppedStateSeqLen = PoppedFrame.orig_input_seq_len
       /\ PoppedStateBuffer = <<"buffer_2", 1>>
       /\ rc[1]
       /\ new_token.ort_values[rc[2] + 1].shape = <<PoppedFrame.batch_size, 1>>
       /\ Len(new_token.ort_values[rc[2] + 1].data) = PoppedFrame.batch_size
       /\ sched_log'[r] = <<0, 0>>

\* num_steps = 2 and the popped token is that of step 1: two closures were
\* scheduled and executed, the state was updated a second time, and nothing
\* more is scheduled
AfterTheSteps ==
  LET r == token_ptr
  IN (num_steps = 2 /\ PoppedToken.step_id = 1) =>
       /\ sched_log[r] = <<0, 0>>
       /\ exec_log[r] = <<0, 0>>
       /\ PoppedStateSeqLen = PoppedFrame.orig_input_seq_len + 1
       /\ PoppedStateBuffer = <<"buffer_1", 1>>
       /\ sched_log' = sched_log
       /\ \/ done_log'[r] = [how |-> "num_steps", step_id |-> 2]
          \/ pc' = "drain" /\ MissingOutputs # {}

\* C19: in a single-stage ensemble every token popped by the orchestrator
\* triggers step finalisation (stage_id stays 0); with num_steps = 2 and no EOS
\* exactly 2 closures are scheduled for the request, output_val_map is updated
\* twice, and regenerated input_ids of shape [batch_size, 1] are injected
\* between the two steps.
C19_SingleStage ==
  [][ SingleStagePop => Finalised /\ BetweenTheSteps /\ AfterTheSteps ]_vars

\* a request of a single-stage ensemble completed its two steps
C19_Witness ==
  /\ pcfg.num_stages = 1
  /\ num_steps = 2
  /\ done_log[1] = [how |-> "num_steps", step_id |-> 2]
  /\ sched_log[1] = <<0, 0>>
  /\ exec_log[1] = <<0, 0>>
  /\ Len(posn_log[1]) = 1


\* ------------------------------------------------------------------ C20
\* the requests whose closures are queued or executing on some stage
ClosureHolders ==
  { r \in ReqIds : \E s \in StageIds : QueuedAt(r, s) # {} \/ RunningAt(r, s) }

\* a frame leaves the map only through the erase of a request that completed
\* num_steps or predicted EOS on every lane
RemovedOnlyWhenDone ==
  \A r \in DOMAIN req_frame_map :
    r \notin DOMAIN req_frame_map' =>
      /\ pc = "dispatch"
      /\ r = token_ptr
      /\ done_log[r] = NotDone
      /\ done_log'[r].how \in {"num_steps", "eos"}

\* no queued or executing closure references a frame that is gone, and none
\* has run against one
NoDanglingClosure == ClosureHolders \subseteq DOMAIN req_frame_map /\ ~ub

\* C20: a request's frame is removed from the map only when the request
\* completes num_steps or terminates on all-EOS, and at the moment of removal
\* and at every later moment no queued or executing closure holds a reference
\* to that frame or to its token (no closure ever runs against a destroyed
\* frame).
C20_FrameLifetime ==
  [][ (pc' # "returned" => RemovedOnlyWhenDone) /\ NoDanglingClosure' ]_vars

\* the part of C20 that holds: unless an exception leaves Run, frames leave
\* the map only by the erase of a finished request or with the return of Run,
\* and no closure is left behind for them
C20_UnlessRunThrows ==
  [][ status'.code # "exception" =>
        (pc' # "returned" => RemovedOnlyWhenDone) /\ NoDanglingClosure' ]_vars

\* a closure is still queued for a frame that is gone
C20_Witness ==
  /\ ClosureHolders \ DOMAIN req_frame_map # {}
  /\ ~ub


\* ------------------------------------------------------------------ C21
\* the worker of stage s finishes the closure it was running
ClosureOver(s) ==
  /\ pipeline_stages[s + 1].running # NoTask
  /\ pipeline_stages'[s + 1].running # pipeline_stages[s + 1].running

\* What the end of the closure of stage s leaves behind: one more token on the
\* response queue, the token of the closure's own frame with the req_id and
\* step_id the execution started with, carrying either the outputs of a run
\* that returned or the error of one that threw; the thread calling Run is
\* where it was.
OneTokenPushed(s) ==
  LET r == pipeline_stages[s + 1].running.req_id
  IN /\ pc' = pc
     /\ resp_queue' = Append(resp_queue, r)
     /\ r \in DOMAIN req_frame_map
     /\ r \in DOMAIN req_frame_map'
     /\ LET token == req_frame_map[r].token
            pushed == req_frame_map'[r].token
        IN /\ pushed.req_id = token.req_id
           /\ pushed.req_id = r
           /\ pushed.step_id = token.step_id
           /\ \/ /\ pushed.error_msg = NoMsg
                 /\ token.error_msg = NoMsg
              \/ /\ pushed.error_msg.kind = "Error in processing request id"
                 /\ pushed.error_msg.id = r
                 /\ pushed.ort_value_names = <<>>
                 /\ req_frame_map'[r].model_run_state_vec[s + 1].output_val_map
                      = req_frame_map[r].model_run_state_vec[s + 1].output_val_map

\* C21: every closure executed by a stage worker pushes exactly one token onto
\* the response queue, whether ExecuteRequest returns normally or throws; when
\* it throws the pushed token is the frame's own token with a non-empty
\* error_msg and the req_id and step_id of the failing execution, and the
\* exception does not leave the worker thread.
C21_OneTokenPerClosure ==
  [][ \A s \in StageIds : ClosureOver(s) => OneTokenPushed(s) ]_vars

\* the part of C21 that holds: closures that run while Run has not been left
\* by an exception
C21_WhileFramesLive ==
  [][ \A s \in StageIds :
        (ClosureOver(s) /\ status.code # "exception") => OneTokenPushed(s) ]_vars

\* a token carrying the error of a closure that threw is on the response queue
C21_Witness ==
  \E i \in DOMAIN resp_queue :
    /\ resp_queue[i] \in DOMAIN req_frame_map
    /\ req_frame_map[resp_queue[i]].token.error_msg.kind = "Error in processing request id"


\* ------------------------------------------------------------------ C22
\* What the closure of request r, run in this step, bound to the past-state
\* inputs of its stage: the token's value if the token carries the name, else
\* the state output_val_map held when the closure started, which at step 0 is
\* the empty state over buffer_1 and at step t >= 1 is as long as t steps make
\* it and lies in the buffer step t - 1 wrote.
PastBoundToLastPresent(r) ==
  LET frame == req_frame_map[r]
      s == frame.stage_id
      mcfg == pcfg.model_config_vec[s + 1]
      token == frame.token
      t == token.step_id
      before == frame.model_run_state_vec[s + 1]
      after == req_frame_map'[r].model_run_state_vec[s + 1]
  IN \A k \in DOMAIN mcfg.past_input_names :
       LET iname == mcfg.past_input_names[k]
           rc == Contains(token.ort_value_names, iname)
           state == before.output_val_map[mcfg.present_output_names[k]]
       IN Contains(mcfg.input_names, iname)[1] =>
            /\ iname \in DOMAIN after.io_binding.inputs
            /\ IF rc[1]
                 THEN after.io_binding.inputs[iname] = token.ort_values[rc[2] + 1]
                 ELSE /\ after.io_binding.inputs[iname] = state
                      /\ state.shape[mcfg.seq_len_dim_index_in_state + 1]
                           = IF t = 0 THEN 0 ELSE frame.orig_input_seq_len + (t - 1)
                      /\ state.buf = IF t = 0 \/ (t - 1) % 2 = 1
                                       THEN before.present_past_prealloc_buffer_1_vec[k].id
                                       ELSE before.present_past_prealloc_buffer_2_vec[k].id

\* The state a stage keeps for request r changes only when a closure of r run
\* on that stage returns, and then to the present-state outputs it bound.
StateIsLastHarvest(r) ==
  \A s \in StageIds :
    LET mcfg == pcfg.model_config_vec[s + 1]
        before == req_frame_map[r].model_run_state_vec[s + 1]
        after == req_frame_map'[r].model_run_state_vec[s + 1]
    IN (r \in DOMAIN req_frame_map' /\ after.output_val_map # before.output_val_map) =>
         /\ ClosureRan(r)
         /\ req_frame_map[r].stage_id = s
         /\ req_frame_map'[r].token.error_msg = NoMsg
         /\ \A k \in DOMAIN mcfg.present_output_names :
              \E i \in DOMAIN after.io_binding.outputs :
                /\ after.io_binding.outputs[i].name = mcfg.present_output_names[k]
                /\ after.io_binding.outputs[i].value = after.output_val_map[mcfg.present_output_names[k]]

\* C22: for every request, stage and recurrent-state slot k, the value bound
\* to past_input_names[k] at step t >= 1 is the value of
\* present_output_names[k] the same stage harvested for the same request at
\* step t - 1, and at step 0 it is the initial empty state (sequence length 0)
\* over buffer-1; a past-state input is taken from the token only if the
\* token carries that name.
C22_PastIsLastPresent ==
  [][ \A r \in DOMAIN req_frame_map :
        /\ StateIsLastHarvest(r)
        /\ ClosureRan(r) => PastBoundToLastPresent(r) ]_vars

\* the last stage has bound, at step 2, the state it harvested at step 1
C22_Witness ==
  \E r \in DOMAIN req_frame_map :
    LET s == pcfg.num_stages - 1
        mcfg == pcfg.model_config_vec[s + 1]
        run_state == req_frame_map[r].model_run_state_vec[s + 1]
    IN /\ pcfg.num_stages = NumStages
       /\ ExecutionsAt(r, s) = 3
       /\ mcfg.past_input_names[1] \in DOMAIN run_state.io_binding.inputs
       /\ run_state.io_binding.inputs[mcfg.past_input_names[1]].buf = <<"buffer_1", 1>>
       /\ run_state.io_binding.inputs[mcfg.past_input_names[1]]
            .shape[mcfg.seq_len_dim_index_in_state + 1] = req_frame_map[r].orig_input_seq_len + 1


\* ------------------------------------------------------------------ C23
\* the closure of request r, run in this step on a stage that is not the
\* last, returned
ReturnedFromInnerStage(r) ==
  /\ ClosureRan(r)
  /\ req_frame_map[r].stage_id < pcfg.num_stages - 1
  /\ req_frame_map'[r].token.error_msg = NoMsg

\* The token the closure of request r leaves: one pair per output of the stage
\* that is a key of inter_stage_output_input_map, in the order of the output
\* names, under the mapped name and with the value bound to that output; no
\* present-state output and none of the received input values.
PayloadIsMappedOutputs(r) ==
  LET frame == req_frame_map[r]
      mcfg == pcfg.model_config_vec[frame.stage_id + 1]
      IsKey(oname) == oname \in DOMAIN mcfg.inter_stage_output_input_map
      keys == SelectSeq(mcfg.output_names, IsKey)
      pushed == req_frame_map'[r].token
      bound == req_frame_map'[r].model_run_state_vec[frame.stage_id + 1].io_binding.outputs
  IN /\ pushed.ort_value_names = [i \in DOMAIN keys |-> mcfg.inter_stage_output_input_map[keys[i]]]
     /\ Len(pushed.ort_values) = Len(keys)
     /\ \A i \in DOMAIN keys :
          \E j \in DOMAIN bound :
            /\ bound[j].name = keys[i]
            /\ bound[j].kind = "inter_stage"
            /\ pushed.ort_values[i] = bound[j].value
     /\ \A i \in DOMAIN pushed.ort_value_names :
          /\ ~Contains(mcfg.present_output_names, pushed.ort_value_names[i])[1]
          /\ \A k \in DOMAIN mcfg.present_output_names :
               pushed.ort_values[i] # req_frame_map'[r].model_run_state_vec[frame.stage_id + 1]
                                        .output_val_map[mcfg.present_output_names[k]]
          /\ \A j \in DOMAIN frame.token.ort_values : pushed.ort_values[i] # frame.token.ort_values[j]

\* the orchestrator handles a token popped from a stage that is not the last:
\* the payload is untouched, the frame moves to the next stage and the closure
\* for it is scheduled there
OrchestratorOnlyAdvances ==
  LET r == token_ptr
  IN (/\ pc = "dispatch"
      /\ pc' # "dispatch"
      /\ PoppedToken.error_msg = NoMsg
      /\ PoppedFrame.stage_id < pcfg.num_stages - 1) =>
       /\ req_frame_map'[r] = [PoppedFrame EXCEPT !.stage_id = PoppedFrame.stage_id + 1]
       /\ pipeline_stages' = ScheduleTask(pipeline_stages, PoppedFrame.stage_id + 1,
                                          Task(r, PoppedFrame.stage_id + 1))

\* C23: for every non-last stage s the token delivered to stage s + 1 carries
\* exactly one (name, value) pair for each output of stage s that is a key of
\* inter_stage_output_input_map, under the mapped next-stage input name and in
\* the order of the stage's output names, and nothing else; the orchestrator
\* leaves this payload unchanged and only advances stage_id.
C23_InterStagePayload ==
  [][ /\ \A r \in DOMAIN req_frame_map : ReturnedFromInnerStage(r) => PayloadIsMappedOutputs(r)
      /\ OrchestratorOnlyAdvances ]_vars

\* the closure of the last stage is running on the hidden states the stage
\* before it produced at step 1
C23_Witness ==
  \E r \in DOMAIN req_frame_map :
    /\ pcfg.num_stages = NumStages
    /\ RunningAt(r, pcfg.num_stages - 1)
    /\ req_frame_map[r].stage_id = pcfg.num_stages - 1
    /\ req_frame_map[r].token.step_id = 1
    /\ req_frame_map[r].token.ort_value_names = <<Name("input_hidden_states")>>
    /\ req_frame_map[r].token.ort_values[1].shape = <<req_frame_map[r].batch_size, 1>>


\* ------------------------------------------------------------------ C24
\* the index of the largest logit of the lane's last time step, the lowest one
\* if several are the largest
ArgMaxOfLane(logits, lane) ==
  CHOOSE j \in 0..(logits.shape[3] - 1) :
    /\ \A i \in 0..(logits.shape[3] - 1) : LastStepLogit(logits, lane, i) <= LastStepLogit(logits, lane, j)
    /\ \A i \in 0..(j - 1) : LastStepLogit(logits, lane, i) < LastStepLogit(logits, lane, j)

\* the orchestrator ends a step of the popped request and starts the next one
StepTransition ==
  /\ pc = "dispatch"
  /\ PoppedToken.error_msg = NoMsg
  /\ PoppedFrame.stage_id = pcfg.num_stages - 1
  /\ token_ptr \in DOMAIN req_frame_map'
  /\ sched_log'[token_ptr] # sched_log[token_ptr]

\* C24: at every step transition that continues the request the token is
\* cleared and refilled with exactly two entries, named input_ids_name and
\* position_ids_name in that order, whose values both have shape
\* [batch_size, 1], the input ids being the per-lane argmax ids, and the
\* token's step_id is the previous step_id + 1.
C24_TokenRebuilt ==
  [][ StepTransition =>
        LET new_token == req_frame_map'[token_ptr].token
            batch_size == PoppedFrame.batch_size
        IN /\ new_token.ort_value_names = <<pcfg.input_ids_name, pcfg.position_ids_name>>
           /\ Len(new_token.ort_values) = 2
           /\ new_token.ort_values[1].shape = <<batch_size, 1>>
           /\ new_token.ort_values[2].shape = <<batch_size, 1>>
           /\ new_token.ort_values[1].data =
                [lane \in 1..batch_size |-> ArgMaxOfLane(PoppedLogits, lane - 1)]
           /\ Len(new_token.ort_values[2].data) = batch_size
           /\ new_token.step_id = PoppedToken.step_id + 1
           /\ new_token.req_id = token_ptr
           /\ new_token.error_msg = NoMsg ]_vars

\* the token of a request of batch size 2 was rebuilt for step 1 with two
\* different ids for its lanes
C24_Witness ==
  \E r \in DOMAIN req_frame_map :
    /\ req_frame_map[r].batch_size = 2
    /\ req_frame_map[r].stage_id = 0
    /\ req_frame_map[r].token.step_id = 1
    /\ req_frame_map[r].token.ort_value_names = <<pcfg.input_ids_name, pcfg.position_ids_name>>
    /\ req_frame_map[r].token.ort_values[1].data = <<0, 1>>


\* ------------------------------------------------------------------ C25
\* the orchestrator holds a token of the last stage that carries the logits
LogitsPopped ==
  /\ pc = "dispatch"
  /\ PoppedToken.error_msg = NoMsg
  /\ PoppedFrame.stage_id = pcfg.num_stages - 1
  /\ Contains(PoppedToken.ort_value_names, pcfg.logits_name)[1]

\* the ids GetNewInputIdsFromLogits computes from the popped logits
PoppedNewIds ==
  GetNewInputIdsFromLogits(PoppedFrame.batch_size, PoppedLogits, PoppedLogits.shape,
                           pcfg.eos_token).input_ids

\* C25: for each batch lane the next input id is the index of the maximum
\* logit within the last time step's vocabulary slice [lane, seq_len - 1, :]
\* of the logits tensor, and when several vocabulary entries tie for the
\* maximum the lowest index is chosen.
C25_ArgMax ==
  LogitsPopped =>
    /\ Len(PoppedNewIds) = PoppedLogits.shape[1]
    /\ \A lane \in 0..(PoppedLogits.shape[1] - 1) :
         LET vocab == PoppedLogits.shape[3]
             slice == lane * PoppedLogits.shape[2] * vocab + (PoppedLogits.shape[2] - 1) * vocab
             Logit(i) == HalfToFloat(PoppedLogits.data[slice + i + 1])
             j == PoppedNewIds[lane + 1]
         IN /\ j \in 0..(vocab - 1)
            /\ \A i \in 0..(vocab - 1) : Logit(i) <= Logit(j)
            /\ \A i \in 0..(j - 1) : Logit(i) < Logit(j)

\* logits of two lanes and several time steps were popped; in the last time
\* step one lane has its maximum at index 1 and in the other all entries tie
C25_Witness ==
  /\ LogitsPopped
  /\ PoppedLogits.shape[1] = 2
  /\ PoppedLogits.shape[2] > 1
  /\ PoppedNewIds = <<1, 0>>
  /\ LastStepLogit(PoppedLogits, 1, 0) = LastStepLogit(PoppedLogits, 1, 1)
  /\ LastStepLogit(PoppedLogits, 0, 0) < 0


\* ------------------------------------------------------------------ C26
\* the step_id of the token of request r counts the wrap-arounds made so far:
\* the closures scheduled for r so far, less the one of the current pass,
\* make whole passes through the stages
StepIdCountsPasses(r) ==
  req_frame_map[r].token.step_id = (Len(sched_log[r]) - 1) \div pcfg.num_stages

\* the step_id of the token of request r changes only when the orchestrator
\* wraps r around from the last stage to stage 0, and then by one
StepIdMovesAtWrapOnly(r) ==
  LET token == req_frame_map[r].token
      new_token == req_frame_map'[r].token
  IN /\ new_token.step_id # token.step_id =>
          /\ pc = "dispatch"
          /\ r = token_ptr
          /\ token.error_msg = NoMsg
          /\ req_frame_map[r].stage_id = pcfg.num_stages - 1
          /\ req_frame_map'[r].stage_id = 0
          /\ new_token.step_id = token.step_id + 1
     /\ (pc = "dispatch" /\ r = token_ptr /\ sched_log'[r] # sched_log[r]) =>
          new_token.step_id = IF req_frame_map'[r].stage_id = 0 THEN token.step_id + 1
                                                                ELSE token.step_id
     /\ ClosureRan(r) => new_token.step_id = token.step_id

\* C26: the step_id carried by a request's token is 0 for the first pass, is
\* the same for all num_stages executions of one decoding step (the
\* orchestrator rewrites it unchanged when advancing to a non-first stage, an
\* error token keeps it), and increases by exactly 1 at each wrap-around from
\* the last stage to stage 0.
C26_StepId ==
  [][ /\ \A r \in DOMAIN req_frame_map' \ DOMAIN req_frame_map : req_frame_map'[r].token.step_id = 0
      /\ \A r \in DOMAIN req_frame_map \cap DOMAIN req_frame_map' : StepIdMovesAtWrapOnly(r)
      /\ \A r \in DOMAIN req_frame_map' : StepIdCountsPasses(r)' ]_vars

\* the last of two stages threw at step 1 and its error token says step 1
C26_Witness ==
  \E r \in DOMAIN req_frame_map :
    /\ pcfg.num_stages = NumStages
    /\ req_frame_map[r].stage_id = pcfg.num_stages - 1
    /\ req_frame_map[r].token.error_msg # NoMsg
    /\ req_frame_map[r].token.step_id = 1
    /\ Len(exec_log[r]) = 2 * pcfg.num_stages


\* ------------------------------------------------------------------ C27
LastStageConfig == pcfg.model_config_vec[pcfg.num_stages]

\* the names the last stage's inter_stage_output_input_map gives its outputs
LastStageMappedNames ==
  { LastStageConfig.inter_stage_output_input_map[o] :
      o \in DOMAIN LastStageConfig.inter_stage_output_input_map \cap Range(LastStageConfig.output_names) }

\* the orchestrator holds a token the last stage returned
PoppedFromLastStage ==
  /\ pc = "dispatch"
  /\ PoppedToken.error_msg = NoMsg
  /\ PoppedFrame.stage_id = pcfg.num_stages - 1

\* what the popped request asked for
PoppedRequested == resp_list[PoppedFrame.req_index + 1].output_names

\* a response value of the popped request changes only to the value the token
\* carries under the requested name
TransfersOnlyCarried ==
  LET slot == PoppedFrame.req_index + 1
  IN \A k \in DOMAIN PoppedRequested :
       resp_list'[slot].output_values[k] # resp_list[slot].output_values[k] =>
         LET ex == Contains(PoppedToken.ort_value_names, PoppedRequested[k])
         IN /\ ex[1]
            /\ resp_list'[slot].output_values[k] = PoppedToken.ort_values[ex[2] + 1]

\* the requested outputs the last-stage model produces without the map
\* routing them under the requested name
UnroutedRequested ==
  { k \in DOMAIN PoppedRequested :
      /\ PoppedRequested[k] \in Range(LastStageConfig.output_names)
      /\ PoppedRequested[k] \notin LastStageMappedNames }

\* C27: CopyFinalOutput transfers a requested output only if its name is among
\* the names of the last stage's output token, which are exactly the mapped
\* names of the last stage's inter_stage_output_input_map; a requested output
\* the last-stage model produces but the map does not route under the
\* requested name makes Run fail with 'not produced by the final stage'.
C27_OnlyRoutedOutputs ==
  [][ /\ PoppedFromLastStage => Range(PoppedToken.ort_value_names) = LastStageMappedNames
      /\ (PoppedEndsRequest /\ pc' # "dispatch") =>
           /\ TransfersOnlyCarried
           /\ UnroutedRequested # {} =>
                /\ pc' = "drain"
                /\ fail_msg'.kind = "Error: Output is not produced by the final stage"
                /\ \E k \in MissingOutputs : fail_msg'.name = PoppedRequested[k]
                /\ done_log' = done_log
                /\ req_processed' = req_processed
      /\ (pc = "epilogue" /\ pc' = "returned" /\ MissingAbort) => status.code = "ORT_FAIL"
    ]_vars

\* Run is failing for "scores", which the last-stage model produced and the
\* caller asked for
C27_Witness ==
  /\ pc = "drain"
  /\ MissingAbort
  /\ fail_msg.name = Name("scores")
  /\ unrouted_model = pcfg.num_stages - 1
  /\ \E r \in DOMAIN req_frame_map :
       LET bound == req_frame_map[r].model_run_state_vec[pcfg.num_stages].io_binding.outputs
       IN \E j \in DOMAIN bound : bound[j].name = Name("scores") /\ bound[j].kind = "device"


\* ------------------------------------------------------------------ C28
\* buffers for inter-stage outputs exist for the keys of the stage's
\* inter_stage_output_input_map, and for none on the last stage
PreallocatedForKeysOnly ==
  \A r \in DOMAIN req_frame_map : \A s \in StageIds :
    DOMAIN req_frame_map[r].model_run_state_vec[s + 1].inter_stage_output_prealloc_buffer_map
      = IF s < pcfg.num_stages - 1
          THEN DOMAIN pcfg.model_config_vec[s + 1].inter_stage_output_input_map
          ELSE {}

\* the outputs of the model of stage s that are neither present-state outputs,
\* nor requested by the caller of request r, nor, on a stage that is not the
\* last, keys of inter_stage_output_input_map
OrphanOutputs(r, s) ==
  LET mcfg == pcfg.model_config_vec[s + 1]
      requested == resp_list[req_frame_map[r].req_index + 1].output_names
  IN { o \in Range(mcfg.output_names) :
         /\ ~Contains(mcfg.present_output_names, o)[1]
         /\ ~Contains(requested, o)[1]
         /\ s < pcfg.num_stages - 1 => o \notin DOMAIN mcfg.inter_stage_output_input_map }

\* the closure of request r run in this step ends in an error token for the
\* failed lookup, without the model having been run: nothing was harvested
LookupFailed(r) ==
  LET s == req_frame_map[r].stage_id
      pushed == req_frame_map'[r].token
  IN /\ pushed.error_msg = Msg("Error in processing request id", r, Name("out_of_range"))
     /\ pushed.ort_value_names = <<>>
     /\ pushed.ort_values = <<>>
     /\ req_frame_map'[r].model_run_state_vec[s + 1].output_val_map
          = req_frame_map[r].model_run_state_vec[s + 1].output_val_map
     /\ \A i \in DOMAIN req_frame_map'[r].model_run_state_vec[s + 1].io_binding.outputs :
          req_frame_map'[r].model_run_state_vec[s + 1].io_binding.outputs[i].name
            \notin OrphanOutputs(r, s)

\* the orchestrator aborts the batch because of a failed buffer lookup
LookupAbort ==
  fail_msg.kind = "Error in processing request id" /\ fail_msg.name = Name("out_of_range")

\* C28: inter-stage output buffers are preallocated only for non-last stages
\* and only for keys of inter_stage_output_input_map; a closure of a stage
\* whose model has an output that is neither a present-state output, nor
\* caller-requested, nor (on a non-last stage) a key of the map fails to look
\* up its buffer and produces an error token before the model is run, and the
\* whole batch is aborted.
C28_OrphanOutputAborts ==
  [][ /\ PreallocatedForKeysOnly'
      /\ \A r \in DOMAIN req_frame_map :
           (ClosureRan(r) /\ OrphanOutputs(r, req_frame_map[r].stage_id) # {}) => LookupFailed(r)
      /\ (pc = "dispatch" /\ pc' # "dispatch" /\ PoppedToken.error_msg.name = Name("out_of_range")) =>
           /\ pc' = "drain"
           /\ fail_msg' = PoppedToken.error_msg
           /\ sched_log' = sched_log
           /\ req_processed' = req_processed
      /\ (pc \in {"drain", "epilogue"} /\ LookupAbort) =>
           /\ pc' \in {"drain", "epilogue", "returned"}
           /\ sched_log' = sched_log
           /\ req_processed' = req_processed
           /\ pc' = "epilogue" => status' = Status("ORT_FAIL", fail_msg)
           /\ pc' = "returned" => status' = status /\ status.code = "ORT_FAIL"
    ]_vars

\* the first of two stages has an output nobody takes, and Run is failing with
\* the error of its closure
C28_Witness ==
  /\ pcfg.num_stages = NumStages
  /\ unrouted_model = 0
  /\ pc = "epilogue"
  /\ LookupAbort
  /\ status.code = "ORT_FAIL"
  /\ \E r \in DOMAIN req_frame_map :
       /\ req_frame_map[r].stage_id = 0
       /\ OrphanOutputs(r, 0) = {Name("scores")}
       /\ exec_log[r] = <<0>>


\* ---------------------------------------------------------------- C29
LogEntry(what, arg, token) == [what |-> what, arg |-> arg, token |-> token]

\* the token the kernel is said to signal: TOKEN_YIELD_END_FORWARD for a
\* Yield; for a Hole TOKEN_HOLE_BACKWARD + external_fn when is_backward is
\* set and TOKEN_HOLE_FORWARD + external_fn otherwise
StatedToken(k) ==
  CASE k.op = "Yield" -> EventToken("TOKEN_YIELD_END_FORWARD", 0)
    [] k.op = "Hole" /\ k.is_backward = 0 -> EventToken("TOKEN_HOLE_FORWARD", k.external_fn)
    [] k.op = "Hole" /\ k.is_backward # 0 -> EventToken("TOKEN_HOLE_BACKWARD", k.external_fn)

\* what Compute does from entry to return, in order
StatedOrder(k) ==
  [i \in 1..k.InputCount |-> LogEntry("Push", i - 1, NotSignaled)]
  \o << LogEntry("SignalEvent", main_thread_event_id, StatedToken(k)),
        LogEntry("ResetAndWaitEvent", background_thread_event_id, NotSignaled),
        LogEntry("resumed", background_thread_event_id, EventToken("TOKEN_CONTINUE", 0)) >>
  \o [j \in 1..k.OutputCount |-> LogEntry("Pop", j - 1, NotSignaled)]

\* the main-thread event is signalled only when every input is on the queue,
\* in input order
InputsPushedBeforeSignal ==
  /\ event_pool[main_thread_event_id] # NotSignaled =>
       /\ i_in = kernel.InputCount
       /\ event_pool[main_thread_event_id] = StatedToken(kernel)
  /\ other_pc \in {"wait", "exchange"} =>
       message_queue = [i \in 1..i_in |-> InputMLValue(i - 1)]

\* outputs are popped only after the wait has returned, in output order
OutputsPoppedAfterWait ==
  /\ compute_pc \in {"push", "wait", "blocked"} => i_out = 0 /\ op_outputs = <<>>
  /\ op_outputs = [j \in 1..i_out |-> ReturnedMLValue(j - 1)]
  /\ compute_pc = "OK" => i_out = kernel.OutputCount

\* C29: Compute of a Yield and of a Hole pushes its InputCount inputs in
\* input order, then signals event 0 with its token (TOKEN_YIELD_END_FORWARD;
\* TOKEN_HOLE_BACKWARD + external_fn with is_backward set, TOKEN_HOLE_FORWARD
\* + external_fn otherwise), then waits on event 1, and pops its OutputCount
\* outputs in output order only after that wait has returned.
C29_PushSignalWaitPop ==
  /\ IsPrefix(compute_log, StatedOrder(kernel))
  /\ InputsPushedBeforeSignal
  /\ OutputsPoppedAfterWait

\* a backward Hole with two inputs and two outputs has returned
C29_Witness ==
  /\ compute_pc = "OK"
  /\ kernel.op = "Hole"
  /\ kernel.is_backward = 2
  /\ kernel.external_fn = 1
  /\ kernel.InputCount = 2
  /\ kernel.OutputCount = 2
  /\ Len(op_outputs) = 2

\* ---------------------------------------------------------------- C30
\* Compute is inside ResetAndWaitEvent(1), the other thread has signalled
\* event 1 and will not signal again, and the event is not signalled: the
\* signal came before the reset and was erased by it
LostWakeUp ==
  /\ compute_pc = "blocked"
  /\ other_pc = "done"
  /\ event_pool[background_thread_event_id] = NotSignaled

\* the other thread signals event 1 only after it observed event 0, and once
SignalsOnceAfterObserving ==
  [][event_pool'[background_thread_event_id] # NotSignaled
       /\ event_pool[background_thread_event_id] = NotSignaled
     => other_pc = "signal" /\ other_pc' = "done" /\ event_pool[main_thread_event_id] # NotSignaled]_vars

\* C30: when the other thread, having observed event 0, signals event 1
\* exactly once, Compute eventually resumes and returns OK in every
\* interleaving, also when event 1 is signalled after SignalEvent(0) and
\* before Compute has reached ResetAndWaitEvent(1).
C30_ComputeReturns == <>(compute_pc = "OK")

\* the same, for the interleavings in which Compute is already inside
\* ResetAndWaitEvent(1) when event 1 is signalled
C30_ReturnsWhenWaitingFirst ==
  (compute_pc = "blocked" /\ other_pc # "done") ~> (compute_pc = "OK")
====
